---- MODULE Spec2Model ----
(***************************************************************************)
(* Model of the wireguard-conf crate: the Interface / Peer entity model,   *)
(* the Interface -> Peer export (Interface::to_peer), the                  *)
(* Peer -> Interface derivation (Peer::to_interface), the text the Display *)
(* impls of Interface and Peer produce, the base64 text form of the keys,  *)
(* the builders of Interface and Peer (the derive_builder ones of          *)
(* interface.rs and peer.rs and the by-value ones of builders.rs) and the  *)
(* validation of AmneziaSettings.                                          *)
(*                                                                         *)
(* Option<T> is modelled as a sequence of length at most one: None is <<>> *)
(* and Some(x) is <<x>>.  Result<Interface, WireguardError> is a record    *)
(* [ok, err, val] whose val is an Option.                                  *)
(***************************************************************************)
EXTENDS Integers, Sequences, FiniteSets, TLC

VARIABLES client_peer, server_interface, options,
          client_interface, server_peer, rederived,
          interface_conf, peer_conf, client_conf,
          key_type, key_value, key_text, encoded, decoded, reimported,
          interface_builder, peer_builder, built_interface, built_peer,
          address_calls,
          settings, validated,
          legacy_builder, legacy_calls, legacy_built

\* the variables of the derivation and export, of rendering, of key import
\* and export, of the builders, of the validation of amnezia settings and of
\* the builders of builders.rs
derivationVars == <<client_peer, server_interface, options,
                    client_interface, server_peer, rederived>>
renderVars == <<interface_conf, peer_conf, client_conf>>
keyVars == <<key_type, key_value, key_text, encoded, decoded, reimported>>
builderVars == <<interface_builder, peer_builder, built_interface, built_peer,
                 address_calls>>

amneziaVars == <<settings, validated>>

legacyVars == <<legacy_builder, legacy_calls, legacy_built>>

vars == <<derivationVars, renderVars, keyVars, builderVars, amneziaVars, legacyVars>>

\* ------------------------------------------------------------------------
\* Bounds of the model
\* ------------------------------------------------------------------------
MaxAllowedIps == 2
MaxAddresses == 2
MaxPeers == 2
\* the most fields a builder is given before it builds
MaxFieldsSet == 3
\* the most calls that are made on the address of an InterfaceBuilder
MaxAddressCalls == 3
\* the most calls that are made on a builder of builders.rs
MaxLegacyCalls == 3

\* ------------------------------------------------------------------------
\* Option / Result
\* ------------------------------------------------------------------------
None == <<>>
Some(x) == <<x>>
IsSome(o) == Len(o) = 1
Unwrap(o) == o[1]

Ok(v) == [ok |-> TRUE, err |-> "", val |-> Some(v)]
Err(e) == [ok |-> FALSE, err |-> e, val |-> None]

\* a specification leaves the variables of the others at None
RenderIdle == interface_conf = None /\ peer_conf = None /\ client_conf = None
KeysIdle ==
    /\ key_type = None /\ key_value = None /\ key_text = None
    /\ encoded = None /\ decoded = None /\ reimported = None
BuildersIdle ==
    /\ interface_builder = None /\ peer_builder = None
    /\ built_interface = None /\ built_peer = None
    /\ address_calls = <<>>
AmneziaIdle == settings = None /\ validated = None
LegacyIdle == legacy_builder = None /\ legacy_calls = <<>> /\ legacy_built = None

\* ------------------------------------------------------------------------
\* Addresses and networks (std::net::IpAddr, ipnet::IpNet).  An address is
\* its family and its groups at full width: four octets for IPv4, eight
\* 16-bit groups for IPv6.
\* ------------------------------------------------------------------------
V4(a, b, c, d) == [fam |-> "v4", g |-> <<a, b, c, d>>]
V6(s) == [fam |-> "v6", g |-> s]

is_ipv4(ip) == ip.fam = "v4"
is_ipv6(ip) == ip.fam = "v6"

GroupBits(fam) == IF fam = "v4" THEN 8 ELSE 16
NumGroups(fam) == IF fam = "v4" THEN 4 ELSE 8
MaxPrefixLen(fam) == IF fam = "v4" THEN 32 ELSE 128

\* 2^n for n in 0..16
Pow2(n) ==
    <<1, 2, 4, 8, 16, 32, 64, 128, 256, 512, 1024, 2048, 4096, 8192,
      16384, 32768, 65536>>[n + 1]

Min(a, b) == IF a < b THEN a ELSE b
Max(a, b) == IF a > b THEN a ELSE b

\* IpNet::new(ip, prefix_len): fails when the prefix is longer than the
\* address family allows.
IpNet_new(ip, len) ==
    IF len > MaxPrefixLen(ip.fam) THEN None
    ELSE Some([addr |-> ip, prefix_len |-> len])

\* IpNet::new_assert
IpNet_new_assert(ip, len) == [addr |-> ip, prefix_len |-> len]

addr(net) == net.addr
prefix_len(net) == net.prefix_len

\* number of network bits that fall into group i (1-based)
KeptBits(len, i, bits) == Max(0, Min(bits, len - (i - 1) * bits))

\* IpNet::network(): the address with the host bits cleared
network(net) ==
    LET bits == GroupBits(net.addr.fam)
    IN  [i \in 1..NumGroups(net.addr.fam) |->
            LET h == Pow2(bits - KeptBits(net.prefix_len, i, bits))
            IN  (net.addr.g[i] \div h) * h]

\* IpNet::broadcast(): the address with the host bits set
broadcast(net) ==
    LET bits == GroupBits(net.addr.fam)
    IN  [i \in 1..NumGroups(net.addr.fam) |->
            LET h == Pow2(bits - KeptBits(net.prefix_len, i, bits))
            IN  (net.addr.g[i] \div h) * h + (h - 1)]

\* a <= b for two addresses of one family (big-endian numeric order)
RECURSIVE LeqFrom(_, _, _)
LeqFrom(a, b, i) ==
    IF i > Len(a) THEN TRUE
    ELSE IF a[i] < b[i] THEN TRUE
    ELSE IF a[i] > b[i] THEN FALSE
    ELSE LeqFrom(a, b, i + 1)

AddrLeq(a, b) == LeqFrom(a, b, 1)

\* IpNet::contains(&IpNet): false across families, otherwise
\* self.network() <= other.network() && other.broadcast() <= self.broadcast()
contains(self, other) ==
    /\ self.addr.fam = other.addr.fam
    /\ AddrLeq(network(self), network(other))
    /\ AddrLeq(broadcast(other), broadcast(self))

Ipv4Unspecified == V4(0, 0, 0, 0)
Ipv6Unspecified == V6(<<0, 0, 0, 0, 0, 0, 0, 0>>)

\* ------------------------------------------------------------------------
\* Keys.  A private key is an opaque 32-byte value, named here by a string;
\* PublicKey::from(&PrivateKey) is the one-way x25519 derivation.
\* ------------------------------------------------------------------------
PrivateKeys == {"client_private", "server_private"}

PublicKey_from(private_key) ==
    IF private_key = "client_private" THEN "client_public" ELSE "server_public"

\* either::Either<PrivateKey, PublicKey>
Left(x) == [tag |-> "Left", val |-> x]
Right(x) == [tag |-> "Right", val |-> x]

\* ------------------------------------------------------------------------
\* Interface::to_peer
\* ------------------------------------------------------------------------
\* to_peer exporting the public half of the key
to_peer_public_key(self) ==
    [endpoint |-> self.endpoint,
     allowed_ips |-> self.address,
     key |-> Right(PublicKey_from(self.private_key)),
     preshared_key |-> None,
     persistent_keepalive |-> 0,
     amnezia_settings |-> None]

to_peer(self) ==
    [endpoint |-> self.endpoint,
     allowed_ips |-> self.address,
     key |-> Left(self.private_key),
     preshared_key |-> None,
     persistent_keepalive |-> 0,
     \* the struct literal names no amnezia_settings: the exported peer
     \* carries none
     amnezia_settings |-> None]

\* ------------------------------------------------------------------------
\* Peer::to_interface
\* ------------------------------------------------------------------------
\* the closure letting the last server address containing the allowed ip
\* decide
RECURSIVE assign_from_last(_, _, _)
assign_from_last(allowed_ip, address, i) ==
    IF i > Len(address) THEN None
    ELSE LET later == assign_from_last(allowed_ip, address, i + 1)
         IN  IF later # None THEN later
             ELSE IF contains(address[i], allowed_ip)
                  THEN IpNet_new(addr(allowed_ip), prefix_len(address[i]))
                  ELSE None

\* the closure keeping the allowed ip's own prefix length
RECURSIVE assign_from_own_prefix(_, _, _)
assign_from_own_prefix(allowed_ip, address, i) ==
    IF i > Len(address) THEN None
    ELSE IF contains(address[i], allowed_ip)
         THEN IpNet_new(addr(allowed_ip), prefix_len(allowed_ip))
         ELSE assign_from_own_prefix(allowed_ip, address, i + 1)

\* the closure assigning a single-host network
RECURSIVE assign_from_host_prefix(_, _, _)
assign_from_host_prefix(allowed_ip, address, i) ==
    IF i > Len(address) THEN None
    ELSE IF contains(address[i], allowed_ip)
         THEN IpNet_new(addr(allowed_ip), MaxPrefixLen(addr(allowed_ip).fam))
         ELSE assign_from_host_prefix(allowed_ip, address, i + 1)

\* the closure passing over a server address of prefix length 0
RECURSIVE assign_from_skips_unset(_, _, _)
assign_from_skips_unset(allowed_ip, address, i) ==
    IF i > Len(address) THEN None
    ELSE IF contains(address[i], allowed_ip) /\ prefix_len(address[i]) # 0
         THEN IpNet_new(addr(allowed_ip), prefix_len(address[i]))
         ELSE assign_from_skips_unset(allowed_ip, address, i + 1)

\* the closure given to filter_map: the first server address containing the
\* allowed ip decides; the result is an Option
RECURSIVE assign_from(_, _, _)
assign_from(allowed_ip, address, i) ==
    IF i > Len(address) THEN None
    ELSE IF contains(address[i], allowed_ip)
         THEN IpNet_new(addr(allowed_ip), prefix_len(address[i]))
         ELSE assign_from(allowed_ip, address, i + 1)

assign(allowed_ip, address) == assign_from(allowed_ip, address, 1)

\* the collection keeping one entry per host address
RECURSIVE assigned_from_deduplicated(_, _, _)
assigned_from_deduplicated(allowed_ips, address, i) ==
    IF i > Len(allowed_ips) THEN <<>>
    ELSE LET rest == assigned_from_deduplicated(allowed_ips, address, i + 1)
             this == assign(allowed_ips[i], address)
         IN  IF this # None /\ \E k \in 1..Len(rest) : rest[k] = this[1]
             THEN rest ELSE this \o rest

\* .iter().filter_map(..).collect()
RECURSIVE assigned_from(_, _, _)
assigned_from(allowed_ips, address, i) ==
    IF i > Len(allowed_ips) THEN <<>>
    ELSE assign(allowed_ips[i], address) \o assigned_from(allowed_ips, address, i + 1)

assigned_ips(self, server) == assigned_from(self.allowed_ips, server.address, 1)

\* iter().any(|ip| ip.addr().is_ipv4()) / is_ipv6()
any_ipv4(nets) == \E i \in 1..Len(nets) : is_ipv4(addr(nets[i]))
any_ipv6(nets) == \E i \in 1..Len(nets) : is_ipv6(addr(nets[i]))

default_gateway_ips_ipv4_only(assigned) ==
    IF any_ipv4(assigned) THEN <<IpNet_new_assert(Ipv4Unspecified, 0)>> ELSE <<>>

\* the allowed_ips written into peers[0] when options.default_gateway is set
default_gateway_ips(assigned) ==
    (IF any_ipv4(assigned) THEN <<IpNet_new_assert(Ipv4Unspecified, 0)>> ELSE <<>>)
    \o (IF any_ipv6(assigned) THEN <<IpNet_new_assert(Ipv6Unspecified, 0)>> ELSE <<>>)

\* the struct literal taking the amnezia settings of the server
client_interface_new_server_amnezia(self, server, assigned) ==
    [endpoint |-> None,
     address |-> assigned,
     listen_port |-> None,
     private_key |-> self.key.val,
     dns |-> server.dns,
     table |-> None,
     mtu |-> None,
     amnezia_settings |-> server.amnezia_settings,
     pre_up |-> <<>>,
     pre_down |-> <<>>,
     post_up |-> <<>>,
     post_down |-> <<>>,
     peers |-> <<to_peer(server)>>]

\* the struct literal keeping the server's peers after the exported server
client_interface_new_keeps_peers(self, server, assigned) ==
    [endpoint |-> None,
     address |-> assigned,
     listen_port |-> None,
     private_key |-> self.key.val,
     dns |-> server.dns,
     table |-> None,
     mtu |-> None,
     amnezia_settings |-> self.amnezia_settings,
     pre_up |-> <<>>,
     pre_down |-> <<>>,
     post_up |-> <<>>,
     post_down |-> <<>>,
     peers |-> <<to_peer(server)>> \o server.peers]

\* the Interface struct literal: only the assigned addresses, the peer's
\* key and amnezia settings and the server's dns are carried over
client_interface_new(self, server, assigned) ==
    [endpoint |-> None,
     address |-> assigned,
     listen_port |-> None,
     private_key |-> self.key.val,
     dns |-> server.dns,
     table |-> None,
     mtu |-> None,
     amnezia_settings |-> self.amnezia_settings,
     pre_up |-> <<>>,
     pre_down |-> <<>>,
     post_up |-> <<>>,
     post_down |-> <<>>,
     peers |-> <<to_peer(server)>>]

\* the default routes chosen by the families of the server's addresses
apply_default_gateway_by_reference(interface, assigned, opts) ==
    IF opts.default_gateway
    THEN [interface EXCEPT !.peers[1].allowed_ips =
             default_gateway_ips(interface.peers[1].allowed_ips)]
    ELSE interface

\* if options.default_gateway { client_interface.peers[0].allowed_ips = .. }
apply_default_gateway(interface, assigned, opts) ==
    IF opts.default_gateway
    THEN [interface EXCEPT !.peers[1].allowed_ips = default_gateway_ips(assigned)]
    ELSE interface

\* the keepalive applied only inside the default_gateway branch
apply_persistent_keepalive_with_gateway(interface, opts) ==
    IF opts.persistent_keepalive # 0 /\ opts.default_gateway
    THEN [interface EXCEPT !.peers[1].persistent_keepalive = opts.persistent_keepalive]
    ELSE interface

\* if options.persistent_keepalive != 0 { client_interface.peers[0].. = .. }
apply_persistent_keepalive(interface, opts) ==
    IF opts.persistent_keepalive # 0
    THEN [interface EXCEPT !.peers[1].persistent_keepalive = opts.persistent_keepalive]
    ELSE interface

\* the derivation looking for assigned addresses before looking at the key
to_interface_addresses_first(self, server, opts) ==
    LET assigned == assigned_ips(self, server)
    IN  IF assigned = <<>> THEN Err("NoAssignedIP")
        ELSE IF self.key.tag # "Left" THEN Err("NoPrivateKeyProvided")
        ELSE Ok(apply_persistent_keepalive(
                   apply_default_gateway(
                       client_interface_new(self, server, assigned),
                       assigned, opts),
                   opts))

\* the derivation without the is_empty() check
to_interface_unchecked(self, server, opts) ==
    IF self.key.tag # "Left" THEN Err("NoPrivateKeyProvided")
    ELSE LET assigned == assigned_ips(self, server)
         IN  Ok(apply_persistent_keepalive(
                   apply_default_gateway(
                       client_interface_new(self, server, assigned),
                       assigned, opts),
                   opts))

to_interface(self, server, opts) ==
    IF self.key.tag # "Left" THEN Err("NoPrivateKeyProvided")
    ELSE LET assigned == assigned_ips(self, server)
         IN  IF assigned = <<>> THEN Err("NoAssignedIP")
             ELSE Ok(apply_persistent_keepalive(
                        apply_default_gateway(
                            client_interface_new(self, server, assigned),
                            assigned, opts),
                        opts))

\* ToInterfaceOptions::new() / default()
ToInterfaceOptions_new == [default_gateway |-> FALSE, persistent_keepalive |-> 0]

\* ------------------------------------------------------------------------
\* Inputs
\* ------------------------------------------------------------------------
SeqsUpTo(S, n) == UNION {[1..k -> S] : k \in 0..n}

\* the sequences of SeqsUpTo(S, n) that hold no element twice
DistinctSeqsUpTo(S, n) ==
    {q \in SeqsUpTo(S, n) : \A i, j \in 1..Len(q) : i # j => q[i] # q[j]}

Net(ip, len) == [addr |-> ip, prefix_len |-> len]
Fd00(a, b) == V6(<<64768, a, 0, 0, 0, 0, 0, b>>)

\* addresses a reference interface is given: 10.0.0.1/24, the builder's
\* default 0.0.0.0/0 and fd00::1/48
ServerNetworks ==
    {Net(V4(10, 0, 0, 1), 24), Net(Ipv4Unspecified, 0), Net(Fd00(0, 1), 48)}

\* allowed ips a peer is given: 10.0.0.2/32, 10.0.0.2/16, 1.3.3.7/32,
\* fd00::2/128 and fd00:1::2/128
AllowedNetworks ==
    {Net(V4(10, 0, 0, 2), 32), Net(V4(10, 0, 0, 2), 16),
     Net(V4(1, 3, 3, 7), 32), Net(Fd00(0, 2), 128), Net(Fd00(1, 2), 128)}

AmneziaClient ==
    [jc |-> 4, jmin |-> 40, jmax |-> 70, s1 |-> 20, s2 |-> 30,
     h1 |-> 11, h2 |-> 12, h3 |-> 13, h4 |-> 14]
AmneziaServer ==
    [jc |-> 5, jmin |-> 50, jmax |-> 90, s1 |-> 25, s2 |-> 35,
     h1 |-> 21, h2 |-> 22, h3 |-> 23, h4 |-> 24]

\* the fields of a Peer other than allowed_ips and key: as PeerBuilder leaves
\* them, or all set
PeerSettings ==
    {[endpoint |-> None, persistent_keepalive |-> 0,
      preshared_key |-> None, amnezia_settings |-> None],
     [endpoint |-> Some("client.office.com:51820"), persistent_keepalive |-> 15,
      preshared_key |-> Some("preshared"), amnezia_settings |-> Some(AmneziaClient)]}

\* the fields of an Interface other than address and private_key: as
\* InterfaceBuilder leaves them, or all set, the peers holding client
InterfaceSettings(client) ==
    {[endpoint |-> None, listen_port |-> None, dns |-> <<>>, table |-> None,
      mtu |-> None, amnezia_settings |-> None,
      pre_up |-> <<>>, pre_down |-> <<>>, post_up |-> <<>>, post_down |-> <<>>,
      peers |-> <<>>],
     [endpoint |-> Some("network.office.com"), listen_port |-> Some(51820),
      dns |-> <<"1.1.1.1", "1.0.0.1">>, table |-> Some([kind |-> "Off", n |-> 0]),
      mtu |-> Some(1420), amnezia_settings |-> Some(AmneziaServer),
      pre_up |-> <<"echo pre-up">>, pre_down |-> <<"echo pre-down">>,
      post_up |-> <<"iptables -A FORWARD -i %i -j ACCEPT",
                    "iptables -A FORWARD -o %i -j ACCEPT">>,
      post_down |-> <<"iptables -D FORWARD -i %i -j ACCEPT">>,
      peers |-> <<client>>]}

PeerKeys == {Left("client_private"), Right("client_public")}

Peers ==
    {[endpoint |-> s.endpoint, allowed_ips |-> ips,
      persistent_keepalive |-> s.persistent_keepalive, key |-> k,
      preshared_key |-> s.preshared_key, amnezia_settings |-> s.amnezia_settings] :
        s \in PeerSettings, ips \in DistinctSeqsUpTo(AllowedNetworks, MaxAllowedIps),
        k \in PeerKeys}

Interfaces(client) ==
    {[endpoint |-> s.endpoint, address |-> a, listen_port |-> s.listen_port,
      private_key |-> "server_private", dns |-> s.dns, table |-> s.table,
      mtu |-> s.mtu, amnezia_settings |-> s.amnezia_settings,
      pre_up |-> s.pre_up, pre_down |-> s.pre_down,
      post_up |-> s.post_up, post_down |-> s.post_down, peers |-> s.peers] :
        s \in InterfaceSettings(client), a \in DistinctSeqsUpTo(ServerNetworks, MaxAddresses)}

KeepaliveOptions == {0, 25}

Options == [default_gateway : BOOLEAN, persistent_keepalive : KeepaliveOptions]

\* ------------------------------------------------------------------------
\* Derivation: a caller holding a peer, the interface it is a peer of and
\* options
\* ------------------------------------------------------------------------
Init ==
    /\ client_peer \in Peers
    /\ server_interface \in Interfaces(client_peer)
    /\ options \in Options
    /\ client_interface = None
    /\ server_peer = None
    /\ rederived = None
    /\ RenderIdle /\ KeysIdle /\ BuildersIdle /\ AmneziaIdle /\ LegacyIdle

ToInterface_generates_key ==
    /\ \E k \in PrivateKeys :
          client_interface' = Some(to_interface([client_peer EXCEPT !.key = Left(k)],
                                                server_interface, options))
    /\ UNCHANGED <<client_peer, server_interface, options, server_peer, rederived>>
    /\ UNCHANGED <<renderVars, keyVars, builderVars, amneziaVars, legacyVars>>

\* client_peer.to_interface(&server_interface, options)
ToInterface ==
    /\ client_interface' = Some(to_interface(client_peer, server_interface, options))
    /\ UNCHANGED <<client_peer, server_interface, options, server_peer, rederived>>
    /\ UNCHANGED <<renderVars, keyVars, builderVars, amneziaVars, legacyVars>>

\* client_interface.peers[0].to_interface(&client_interface, ToInterfaceOptions::new())
Rederive ==
    /\ IsSome(client_interface)
    /\ Unwrap(client_interface).ok
    /\ LET c == Unwrap(Unwrap(client_interface).val)
       IN  rederived' = Some(to_interface(c.peers[1], c, ToInterfaceOptions_new))
    /\ UNCHANGED <<client_peer, server_interface, options, client_interface, server_peer>>
    /\ UNCHANGED <<renderVars, keyVars, builderVars, amneziaVars, legacyVars>>

Next == ToInterface \/ Rederive

Spec == Init /\ [][Next]_vars

\* ------------------------------------------------------------------------
\* Export: a caller holding an interface, adding peers to it and exporting it
\* ------------------------------------------------------------------------
ExportPeers ==
    {p \in Peers : Len(p.allowed_ips) = 1 /\ p.allowed_ips[1] = Net(V4(10, 0, 0, 2), 32)}

InitExport ==
    /\ client_peer \in ExportPeers
    /\ server_interface \in Interfaces(client_peer)
    /\ options = ToInterfaceOptions_new
    /\ client_interface = None
    /\ server_peer = None
    /\ rederived = None
    /\ RenderIdle /\ KeysIdle /\ BuildersIdle /\ AmneziaIdle /\ LegacyIdle

\* server_interface.peers.push(client_peer.clone())
PushPeer ==
    /\ Len(server_interface.peers) < MaxPeers
    /\ server_interface' = [server_interface EXCEPT !.peers = Append(@, client_peer)]
    /\ UNCHANGED <<client_peer, options, client_interface, server_peer, rederived>>
    /\ UNCHANGED <<renderVars, keyVars, builderVars, amneziaVars, legacyVars>>

\* server_interface.to_peer()
ToPeer ==
    /\ server_peer' = Some(to_peer(server_interface))
    /\ UNCHANGED <<client_peer, server_interface, options, client_interface, rederived>>
    /\ UNCHANGED <<renderVars, keyVars, builderVars, amneziaVars, legacyVars>>

NextExport == PushPeer \/ ToPeer

SpecExport == InitExport /\ [][NextExport]_vars

\* ------------------------------------------------------------------------
\* Vocabulary of the properties
\* ------------------------------------------------------------------------
Derived == IsSome(client_interface)
DerivedResult == Unwrap(client_interface)
DerivedOk == Derived /\ DerivedResult.ok
DerivedInterface == Unwrap(DerivedResult.val)
HoldsPrivateKey == client_peer.key.tag = "Left"

\* the positions of ips that some network of ref contains
Matched(ips, ref) ==
    {i \in 1..Len(ips) : \E j \in 1..Len(ref) : contains(ref[j], ips[i])}

\* the first position of ref whose network contains a
FirstContaining(ref, a) ==
    CHOOSE j \in 1..Len(ref) :
        /\ contains(ref[j], a)
        /\ \A k \in 1..(j - 1) : ~contains(ref[k], a)

\* the k-th smallest element of a set of positions
KthOf(positions, k) ==
    CHOOSE i \in positions : Cardinality({m \in positions : m <= i}) = k

FamiliesOf(nets) == {nets[i].addr.fam : i \in 1..Len(nets)}

\* C1: for a peer holding a private key with a matched allowed ip, the
\* result's address list is, in the order of peer.allowed_ips, one network
\* (host address of a, prefix length of s) per allowed ip a that some
\* reference address contains, s being the first reference address that
\* contains a; unmatched allowed ips are dropped and raise no error.
C1_AssignedFromFirstContaining ==
    LET ips == client_peer.allowed_ips
        ref == server_interface.address
        m   == Matched(ips, ref)
    IN  (Derived /\ HoldsPrivateKey /\ m # {}) =>
            /\ DerivedResult.ok
            /\ Len(DerivedInterface.address) = Cardinality(m)
            /\ \A k \in 1..Cardinality(m) :
                  LET a == ips[KthOf(m, k)]
                  IN  DerivedInterface.address[k] =
                        [addr |-> a.addr,
                         prefix_len |-> ref[FirstContaining(ref, a)].prefix_len]

\* an unmatched allowed ip precedes a matched one that two reference
\* addresses of different prefix lengths contain
C1_Witness ==
    LET ips == client_peer.allowed_ips
        ref == server_interface.address
    IN  /\ DerivedOk
        /\ Len(ips) = 2 /\ Len(ref) = 2
        /\ Matched(ips, ref) = {2}
        /\ contains(ref[1], ips[2]) /\ contains(ref[2], ips[2])
        /\ ref[1].prefix_len # ref[2].prefix_len

\* C2: a peer holding only a public key gets NoPrivateKeyProvided, whatever
\* the reference interface and the options, also when no allowed ip is
\* contained in a reference address.
C2_PublicKeyRejected ==
    (Derived /\ ~HoldsPrivateKey) => DerivedResult = Err("NoPrivateKeyProvided")

C2_Witness ==
    /\ Derived /\ ~HoldsPrivateKey
    /\ Matched(client_peer.allowed_ips, server_interface.address) = {}
    /\ DerivedResult.err = "NoPrivateKeyProvided"

\* C3: for a peer holding a private key the result is NoAssignedIP exactly
\* when no allowed ip is contained in a reference address, and Ok otherwise;
\* Ok, NoPrivateKeyProvided and NoAssignedIP are the only outcomes.
C3_NoAssignedIpIffUnmatched ==
    LET m == Matched(client_peer.allowed_ips, server_interface.address)
    IN  Derived =>
            /\ HoldsPrivateKey =>
                  /\ (DerivedResult = Err("NoAssignedIP")) <=> (m = {})
                  /\ DerivedResult.ok <=> (m # {})
            /\ \/ DerivedResult.ok /\ IsSome(DerivedResult.val)
               \/ DerivedResult = Err("NoPrivateKeyProvided")
               \/ DerivedResult = Err("NoAssignedIP")

\* allowed ips of one family against reference addresses of the other
C3_Witness ==
    /\ Derived /\ HoldsPrivateKey
    /\ client_peer.allowed_ips # <<>> /\ server_interface.address # <<>>
    /\ FamiliesOf(client_peer.allowed_ips) = {"v6"}
    /\ FamiliesOf(server_interface.address) = {"v4"}
    /\ DerivedResult = Err("NoAssignedIP")

\* C4: on success the result holds the peer's private key, the reference's
\* dns, no endpoint, listen port, table or mtu, no hooks, and the peer's own
\* amnezia settings, whatever the reference interface holds in those fields.
C4_DerivedFields ==
    DerivedOk =>
        /\ DerivedInterface.private_key = client_peer.key.val
        /\ DerivedInterface.dns = server_interface.dns
        /\ DerivedInterface.endpoint = None
        /\ DerivedInterface.listen_port = None
        /\ DerivedInterface.table = None
        /\ DerivedInterface.mtu = None
        /\ DerivedInterface.pre_up = <<>>
        /\ DerivedInterface.pre_down = <<>>
        /\ DerivedInterface.post_up = <<>>
        /\ DerivedInterface.post_down = <<>>
        /\ DerivedInterface.amnezia_settings = client_peer.amnezia_settings

\* the reference has every field set, and amnezia settings other than the
\* peer's
C4_Witness ==
    /\ DerivedOk
    /\ IsSome(server_interface.endpoint) /\ IsSome(server_interface.listen_port)
    /\ IsSome(server_interface.table) /\ IsSome(server_interface.mtu)
    /\ server_interface.dns # <<>> /\ server_interface.post_up # <<>>
    /\ IsSome(server_interface.amnezia_settings)
    /\ IsSome(client_peer.amnezia_settings)
    /\ server_interface.amnezia_settings # client_peer.amnezia_settings
    /\ DerivedInterface.amnezia_settings = client_peer.amnezia_settings

\* C5: on success with default options the result has exactly one peer, the
\* reference exported by to_peer; the reference's own peers are not copied.
C5_SinglePeerIsReference ==
    (DerivedOk /\ options = ToInterfaceOptions_new) =>
        /\ Len(DerivedInterface.peers) = 1
        /\ DerivedInterface.peers[1] = to_peer(server_interface)

\* the reference's peers hold the deriving peer itself
C5_Witness ==
    /\ DerivedOk /\ options = ToInterfaceOptions_new
    /\ server_interface.peers = <<client_peer>>
    /\ Len(DerivedInterface.peers) = 1

\* C6: with default_gateway the single peer's allowed ips are 0.0.0.0/0 when
\* the assigned addresses are all IPv4, ::/0 when they are all IPv6 and
\* 0.0.0.0/0, ::/0 when both families occur among them; without it they are
\* the reference's addresses.
C6_DefaultGatewayRoutes ==
    DerivedOk =>
        LET fams   == FamiliesOf(DerivedInterface.address)
            routes == DerivedInterface.peers[1].allowed_ips
            v4all  == [addr |-> Ipv4Unspecified, prefix_len |-> 0]
            v6all  == [addr |-> Ipv6Unspecified, prefix_len |-> 0]
        IN  /\ (options.default_gateway /\ fams = {"v4"}) => routes = <<v4all>>
            /\ (options.default_gateway /\ fams = {"v6"}) => routes = <<v6all>>
            /\ (options.default_gateway /\ fams = {"v4", "v6"}) => routes = <<v4all, v6all>>
            /\ ~options.default_gateway => routes = server_interface.address

\* the reference has addresses of both families, the assigned ones of one
C6_Witness ==
    /\ DerivedOk /\ options.default_gateway
    /\ FamiliesOf(server_interface.address) = {"v4", "v6"}
    /\ FamiliesOf(DerivedInterface.address) = {"v6"}
    /\ Len(DerivedInterface.peers[1].allowed_ips) = 1

\* C7: on success the single peer's persistent_keepalive is the option's
\* value, whatever the deriving peer's own persistent_keepalive is.
C7_KeepaliveFromOptions ==
    DerivedOk =>
        DerivedInterface.peers[1].persistent_keepalive = options.persistent_keepalive

C7_Witness ==
    /\ DerivedOk
    /\ options.persistent_keepalive = 25
    /\ client_peer.persistent_keepalive = 15
    /\ DerivedInterface.peers[1].persistent_keepalive = 25

\* C8: every export of an interface yields a peer with the interface's
\* endpoint, its addresses as allowed ips (same order, same prefixes), its
\* private key in the private-key variant, keepalive 0 and no preshared key,
\* and leaves the interface as it was.
C8_ExportedPeer ==
    [][server_peer' # server_peer =>
          /\ server_interface' = server_interface
          /\ IsSome(server_peer')
          /\ Unwrap(server_peer').endpoint = server_interface.endpoint
          /\ Unwrap(server_peer').allowed_ips = server_interface.address
          /\ Unwrap(server_peer').key = [tag |-> "Left", val |-> server_interface.private_key]
          /\ Unwrap(server_peer').persistent_keepalive = 0
          /\ Unwrap(server_peer').preshared_key = None]_vars

C8_Witness ==
    /\ IsSome(server_peer)
    /\ IsSome(server_interface.endpoint)
    /\ Len(server_interface.address) = 2
    /\ server_interface.peers # <<>>
    /\ Unwrap(server_peer).allowed_ips = server_interface.address

\* C9: the exported peer carries the interface's amnezia settings, and so
\* does the single peer of a derived interface.
C9_AmneziaCarriedThrough ==
    /\ IsSome(server_peer) =>
          Unwrap(server_peer).amnezia_settings = server_interface.amnezia_settings
    /\ DerivedOk =>
          DerivedInterface.peers[1].amnezia_settings = server_interface.amnezia_settings

\* ------------------------------------------------------------------------
\* Re-derivation
\* ------------------------------------------------------------------------
AllContained ==
    Matched(client_peer.allowed_ips, server_interface.address)
        = 1..Len(client_peer.allowed_ips)

Rederived == IsSome(rederived)
RederivedAddresses == Unwrap(Unwrap(rederived).val).address

\* C10 as stated, for a peer that has allowed ips: a peer holding a private
\* key whose allowed ips are all contained in a reference address derives
\* successfully with default options, and re-deriving the result's single
\* peer against the result succeeds with addresses that each have the host
\* address and the prefix length of one entry of the reference's addresses.
C10_RederivedAreReferenceEntries ==
    (Derived /\ HoldsPrivateKey /\ options = ToInterfaceOptions_new
        /\ client_peer.allowed_ips # <<>> /\ AllContained) =>
        /\ DerivedResult.ok
        /\ Rederived =>
              /\ Unwrap(rederived).ok
              /\ \A k \in 1..Len(RederivedAddresses) :
                    \E j \in 1..Len(server_interface.address) :
                        /\ RederivedAddresses[k].addr = server_interface.address[j].addr
                        /\ RederivedAddresses[k].prefix_len =
                              server_interface.address[j].prefix_len

\* C10 amended: with a non-empty list of allowed ips, all contained in a
\* reference address, both derivations succeed and each re-derived address
\* has the host address of an entry r of the reference's addresses and the
\* prefix length of an entry s of them that contains r.
C10_RederivedWithinReference ==
    (Derived /\ HoldsPrivateKey /\ options = ToInterfaceOptions_new
        /\ client_peer.allowed_ips # <<>> /\ AllContained) =>
        /\ DerivedResult.ok
        /\ Rederived =>
              /\ Unwrap(rederived).ok
              /\ \A k \in 1..Len(RederivedAddresses) :
                    \E j, i \in 1..Len(server_interface.address) :
                        /\ RederivedAddresses[k].addr = server_interface.address[j].addr
                        /\ RederivedAddresses[k].prefix_len =
                              server_interface.address[i].prefix_len
                        /\ contains(server_interface.address[i], server_interface.address[j])

\* a re-derived address that is no entry of the reference's addresses
C10_Witness ==
    /\ HoldsPrivateKey /\ client_peer.allowed_ips # <<>> /\ AllContained
    /\ options = ToInterfaceOptions_new
    /\ Rederived /\ Unwrap(rederived).ok
    /\ \E k \in 1..Len(RederivedAddresses) :
          \A j \in 1..Len(server_interface.address) :
              RederivedAddresses[k] # server_interface.address[j]

\* ------------------------------------------------------------------------
\* Text.  Rendered text is a string; a line ends with "\n".
\* ------------------------------------------------------------------------
Digits == "0123456789abcdef"
Digit(d) == SubSeq(Digits, d + 1, d + 1)

RECURSIVE Numeral(_, _)
Numeral(n, base) ==
    IF n < base THEN Digit(n) ELSE Numeral(n \div base, base) \o Digit(n % base)

\* Display of an unsigned integer, and its {:x} form
Dec(n) == Numeral(n, 10)
Hex(n) == Numeral(n, 16)

\* [String]::join(sep)
RECURSIVE join(_, _)
join(strs, sep) ==
    IF Len(strs) = 0 THEN ""
    ELSE IF Len(strs) = 1 THEN strs[1]
    ELSE strs[1] \o sep \o join(Tail(strs), sep)

\* str::ends_with(pat)
ends_with(s, pat) ==
    /\ Len(s) >= Len(pat)
    /\ SubSeq(s, Len(s) - Len(pat) + 1, Len(s)) = pat

\* str::trim_end_matches(pat): pat is removed from the end as often as it
\* is found there
RECURSIVE trim_end_matches(_, _)
trim_end_matches(s, pat) ==
    IF ends_with(s, pat)
    THEN trim_end_matches(SubSeq(s, 1, Len(s) - Len(pat)), pat)
    ELSE s

\* writeln!(f, "{s}")
writeln(s) == s \o "\n"

\* Display of Ipv4Addr: dotted decimal
Ipv4Addr_to_string(ip) == join([i \in 1..Len(ip.g) |-> Dec(ip.g[i])], ".")

\* the number of zero groups of g from position i on
RECURSIVE ZeroRun(_, _)
ZeroRun(g, i) == IF i > Len(g) \/ g[i] # 0 THEN 0 ELSE 1 + ZeroRun(g, i + 1)

\* the first of the longest runs of zero groups
LongestZeroRun(g) ==
    LET start == CHOOSE i \in 1..Len(g) :
                     \A j \in 1..Len(g) :
                         \/ ZeroRun(g, i) > ZeroRun(g, j)
                         \/ ZeroRun(g, i) = ZeroRun(g, j) /\ i <= j
    IN  [start |-> start, len |-> ZeroRun(g, start)]

fmt_subslice(g) == join([i \in 1..Len(g) |-> Hex(g[i])], ":")

\* Display of Ipv6Addr: an IPv4-mapped address as ::ffff:a.b.c.d, else
\* lower-case hex groups with the longest run of two or more zero groups
\* written as ::
Ipv6Addr_to_string(ip) ==
    LET g == ip.g
        zeroes == LongestZeroRun(g)
    IN  IF (\A i \in 1..5 : g[i] = 0) /\ g[6] = 65535
        THEN "::ffff:" \o Ipv4Addr_to_string(V4(g[7] \div 256, g[7] % 256,
                                                g[8] \div 256, g[8] % 256))
        ELSE IF zeroes.len > 1
        THEN fmt_subslice(SubSeq(g, 1, zeroes.start - 1)) \o "::"
             \o fmt_subslice(SubSeq(g, zeroes.start + zeroes.len, Len(g)))
        ELSE fmt_subslice(g)

IpAddr_to_string(ip) ==
    IF is_ipv4(ip) THEN Ipv4Addr_to_string(ip) ELSE Ipv6Addr_to_string(ip)

\* Display of IpNet: the stored address, "/" and the prefix length
IpNet_to_string(net) == IpAddr_to_string(addr(net)) \o "/" \o Dec(prefix_len(net))

\* ------------------------------------------------------------------------
\* Base64, standard alphabet with padding (base64::prelude::BASE64_STANDARD)
\* ------------------------------------------------------------------------
Base64Alphabet ==
    "ABCDEFGHIJKLMNOPQRSTUVWXYZabcdefghijklmnopqrstuvwxyz0123456789+/"

Symbol(v) == SubSeq(Base64Alphabet, v + 1, v + 1)

RECURSIVE base64_encode_from(_, _)
base64_encode_from(bytes, i) ==
    LET n == Len(bytes) - i + 1
    IN  IF n <= 0 THEN ""
        ELSE IF n = 1
        THEN Symbol(bytes[i] \div 4) \o Symbol((bytes[i] % 4) * 16) \o "=="
        ELSE IF n = 2
        THEN Symbol(bytes[i] \div 4)
             \o Symbol((bytes[i] % 4) * 16 + bytes[i + 1] \div 16)
             \o Symbol((bytes[i + 1] % 16) * 4) \o "="
        ELSE Symbol(bytes[i] \div 4)
             \o Symbol((bytes[i] % 4) * 16 + bytes[i + 1] \div 16)
             \o Symbol((bytes[i + 1] % 16) * 4 + bytes[i + 2] \div 64)
             \o Symbol(bytes[i + 2] % 64)
             \o base64_encode_from(bytes, i + 3)

base64_encode(bytes) == base64_encode_from(bytes, 1)

\* the value of a symbol, None when it is outside the alphabet
SymbolValue(c) ==
    IF \E v \in 0..63 : Symbol(v) = c
    THEN Some(CHOOSE v \in 0..63 : Symbol(v) = c)
    ELSE None

Padding(text) ==
    IF ends_with(text, "==") THEN 2 ELSE IF ends_with(text, "=") THEN 1 ELSE 0

\* decode: None on a DecodeError (a length that is no multiple of four, a
\* symbol outside the alphabet, misplaced padding, non-zero trailing bits),
\* else the bytes
base64_decode(text) ==
    LET data == SubSeq(text, 1, Len(text) - Padding(text))
        n == Len(data)
        symbols == [i \in 1..n |-> SymbolValue(SubSeq(data, i, i))]
        val(i) == Unwrap(symbols[i])
        rem == n % 4
        nbytes == (n \div 4) * 3 + (IF rem = 0 THEN 0 ELSE rem - 1)
        byte(k) ==
            LET q == ((k - 1) \div 3) * 4
                r == (k - 1) % 3
            IN  IF r = 0 THEN val(q + 1) * 4 + val(q + 2) \div 16
                ELSE IF r = 1 THEN (val(q + 2) % 16) * 16 + val(q + 3) \div 4
                ELSE (val(q + 3) % 4) * 64 + val(q + 4)
    IN  IF \/ Len(text) % 4 # 0
           \/ \E i \in 1..n : symbols[i] = None
           \/ rem = 1
           \/ rem = 2 /\ val(n) % 16 # 0
           \/ rem = 3 /\ val(n) % 4 # 0
        THEN None
        ELSE Some([k \in 1..nbytes |-> byte(k)])


\* ------------------------------------------------------------------------
\* Rendering of keys, Table, Peer and Interface (their Display impls)
\* ------------------------------------------------------------------------
KeyLen == 32

\* the bytes of the keys the model names: the two keys of the crate's
\* documentation, three more, the key of zero bytes and the key of 255s
as_bytes(key) ==
    IF key = "client_private"
    THEN <<176, 153, 15, 218, 138, 43, 170, 186, 184, 244, 254, 139, 159, 110,
           76, 90, 141, 215, 211, 131, 241, 132, 31, 36, 249, 25, 201, 38, 118,
           120, 128, 74>>
    ELSE IF key = "client_public"
    THEN <<138, 60, 105, 63, 237, 177, 163, 235, 59, 237, 183, 219, 155, 132,
           25, 206, 94, 142, 201, 131, 251, 176, 131, 147, 186, 218, 167, 129,
           4, 165, 100, 27>>
    ELSE IF key = "server_private" THEN [i \in 1..KeyLen |-> (7 * i + 64) % 256]
    ELSE IF key = "server_public" THEN [i \in 1..KeyLen |-> (11 * i + 128) % 256]
    ELSE IF key = "preshared" THEN [i \in 1..KeyLen |-> (13 * i + 192) % 256]
    ELSE IF key = "zeroes" THEN [i \in 1..KeyLen |-> 0]
    ELSE [i \in 1..KeyLen |-> 255]

PrivateKey_to_string(key) == base64_encode(as_bytes(key))
PublicKey_to_string(key) == base64_encode(as_bytes(key))
PresharedKey_to_string(key) == base64_encode(as_bytes(key))

Table_to_string(table) ==
    IF table.kind = "RoutingTable" THEN Dec(table.n)
    ELSE IF table.kind = "Off" THEN "off"
    ELSE "auto"

\* the texts of a list of networks
to_strings(nets) == [i \in 1..Len(nets) |-> IpNet_to_string(nets[i])]

right_or_else_unwrap(key) == key.val

\* self.key.clone().right_or_else(|key| PublicKey::from(&key))
right_or_else_public(key) ==
    IF key.tag = "Right" THEN key.val ELSE PublicKey_from(key.val)

Peer_to_string_keepalive_always(self) ==
    writeln("[Peer]")
    \o (IF IsSome(self.endpoint)
        THEN writeln("Endpoint = " \o Unwrap(self.endpoint)) ELSE "")
    \o writeln("AllowedIPs = " \o join(to_strings(self.allowed_ips), ","))
    \o writeln("PublicKey = " \o PublicKey_to_string(right_or_else_public(self.key)))
    \o (IF IsSome(self.preshared_key)
        THEN writeln("PresharedKey = " \o PresharedKey_to_string(Unwrap(self.preshared_key)))
        ELSE "")
    \o writeln("PersistentKeepalive = " \o Dec(self.persistent_keepalive))

\* the Display that also prints the private key a peer holds
Peer_to_string_with_private_key(self) ==
    writeln("[Peer]")
    \o (IF IsSome(self.endpoint)
        THEN writeln("Endpoint = " \o Unwrap(self.endpoint)) ELSE "")
    \o writeln("AllowedIPs = " \o join(to_strings(self.allowed_ips), ","))
    \o (IF self.key.tag = "Left"
        THEN writeln("PrivateKey = " \o PrivateKey_to_string(self.key.val)) ELSE "")
    \o writeln("PublicKey = " \o PublicKey_to_string(right_or_else_public(self.key)))
    \o (IF IsSome(self.preshared_key)
        THEN writeln("PresharedKey = " \o PresharedKey_to_string(Unwrap(self.preshared_key)))
        ELSE "")
    \o (IF self.persistent_keepalive # 0
        THEN writeln("PersistentKeepalive = " \o Dec(self.persistent_keepalive))
        ELSE "")

\* impl fmt::Display for Peer
Peer_to_string(self) ==
    writeln("[Peer]")
    \o (IF IsSome(self.endpoint)
        THEN writeln("Endpoint = " \o Unwrap(self.endpoint)) ELSE "")
    \o writeln("AllowedIPs = " \o join(to_strings(self.allowed_ips), ","))
    \o writeln("PublicKey = " \o PublicKey_to_string(right_or_else_public(self.key)))
    \o (IF IsSome(self.preshared_key)
        THEN writeln("PresharedKey = " \o PresharedKey_to_string(Unwrap(self.preshared_key)))
        ELSE "")
    \o (IF self.persistent_keepalive # 0
        THEN writeln("PersistentKeepalive = " \o Dec(self.persistent_keepalive))
        ELSE "")

\* the closure the Address line maps over the address texts
strip_host_suffix(text) ==
    IF ends_with(text, "/32") THEN trim_end_matches(text, "/32")
    ELSE IF ends_with(text, "/128") THEN trim_end_matches(text, "/128")
    ELSE text

address_texts(address) ==
    [i \in 1..Len(address) |-> strip_host_suffix(IpNet_to_string(address[i]))]

interface_section_auto_hidden(self) ==
    writeln("[Interface]")
    \o (IF IsSome(self.endpoint)
        THEN writeln("# Name = " \o Unwrap(self.endpoint)) ELSE "")
    \o writeln("Address = " \o join(address_texts(self.address), ","))
    \o (IF IsSome(self.listen_port)
        THEN writeln("ListenPort = " \o Dec(Unwrap(self.listen_port))) ELSE "")
    \o writeln("PrivateKey = " \o PrivateKey_to_string(self.private_key))
    \o (IF Len(self.dns) # 0 THEN writeln("DNS = " \o join(self.dns, ",")) ELSE "")
    \o (IF IsSome(self.table) /\ Unwrap(self.table).kind # "Auto"
        THEN writeln("Table = " \o Table_to_string(Unwrap(self.table))) ELSE "")
    \o (IF IsSome(self.mtu) THEN writeln("MTU = " \o Dec(Unwrap(self.mtu))) ELSE "")

\* the lines from [Interface] to MTU
interface_section(self) ==
    writeln("[Interface]")
    \o (IF IsSome(self.endpoint)
        THEN writeln("# Name = " \o Unwrap(self.endpoint)) ELSE "")
    \o writeln("Address = " \o join(address_texts(self.address), ","))
    \o (IF IsSome(self.listen_port)
        THEN writeln("ListenPort = " \o Dec(Unwrap(self.listen_port))) ELSE "")
    \o writeln("PrivateKey = " \o PrivateKey_to_string(self.private_key))
    \o (IF Len(self.dns) # 0 THEN writeln("DNS = " \o join(self.dns, ",")) ELSE "")
    \o (IF IsSome(self.table)
        THEN writeln("Table = " \o Table_to_string(Unwrap(self.table))) ELSE "")
    \o (IF IsSome(self.mtu) THEN writeln("MTU = " \o Dec(Unwrap(self.mtu))) ELSE "")

RECURSIVE snippet_lines(_, _)
snippet_lines(name, snippets) ==
    IF Len(snippets) = 0 THEN ""
    ELSE writeln(name \o " = " \o Head(snippets)) \o snippet_lines(name, Tail(snippets))

\* one of the four hook groups: a blank line and a line per snippet, or
\* nothing
hook_group(name, snippets) ==
    IF Len(snippets) # 0 THEN writeln("") \o snippet_lines(name, snippets) ELSE ""

hooks_section_up_before_down(self) ==
    hook_group("PreUp", self.pre_up) \o hook_group("PostUp", self.post_up)
    \o hook_group("PreDown", self.pre_down) \o hook_group("PostDown", self.post_down)

\* the four hook groups
hooks_section(self) ==
    hook_group("PreUp", self.pre_up) \o hook_group("PreDown", self.pre_down)
    \o hook_group("PostUp", self.post_up) \o hook_group("PostDown", self.post_down)

\* Display of AmneziaSettings: a line per field
AmneziaSettings_to_string(a) ==
    writeln("Jc = " \o Dec(a.jc)) \o writeln("Jmin = " \o Dec(a.jmin))
    \o writeln("Jmax = " \o Dec(a.jmax)) \o writeln("S1 = " \o Dec(a.s1))
    \o writeln("S2 = " \o Dec(a.s2)) \o writeln("H1 = " \o Dec(a.h1))
    \o writeln("H2 = " \o Dec(a.h2)) \o writeln("H3 = " \o Dec(a.h3))
    \o writeln("H4 = " \o Dec(a.h4))

amnezia_section(self) ==
    IF IsSome(self.amnezia_settings)
    THEN writeln("") \o writeln(AmneziaSettings_to_string(Unwrap(self.amnezia_settings)))
    ELSE ""

RECURSIVE peers_section_unseparated(_)
peers_section_unseparated(peers) ==
    IF Len(peers) = 0 THEN ""
    ELSE writeln(Peer_to_string(Head(peers))) \o peers_section_unseparated(Tail(peers))

\* for peer in &self.peers { writeln!(f)?; writeln!(f, "{peer}")?; }
RECURSIVE peers_section(_)
peers_section(peers) ==
    IF Len(peers) = 0 THEN ""
    ELSE writeln("") \o writeln(Peer_to_string(Head(peers))) \o peers_section(Tail(peers))

\* impl fmt::Display for Interface
Interface_to_string(self) ==
    interface_section(self) \o hooks_section(self) \o amnezia_section(self)
    \o peers_section(self.peers)


RenderAllowedNetworks ==
    {Net(V4(10, 0, 0, 2), 32), Net(V4(10, 0, 0, 0), 24), Net(Fd00(0, 2), 128)}

\* addresses of a printed interface: 10.0.0.1/32, 1.2.3.4/16, fd00::1/128
\* and fd00::1/32
RenderNetworks ==
    {Net(V4(10, 0, 0, 1), 32), Net(V4(1, 2, 3, 4), 16),
     Net(Fd00(0, 1), 128), Net(Fd00(0, 1), 32)}

RenderPeerSettings ==
    {[endpoint |-> None, persistent_keepalive |-> 0, preshared_key |-> None],
     [endpoint |-> Some("peer.example.com:51820"), persistent_keepalive |-> 0,
      preshared_key |-> None],
     [endpoint |-> None, persistent_keepalive |-> 25,
      preshared_key |-> Some("preshared")],
     [endpoint |-> Some("peer.example.com:51820"), persistent_keepalive |-> 25,
      preshared_key |-> Some("preshared")]}

RenderPeers ==
    {[endpoint |-> s.endpoint, allowed_ips |-> ips,
      persistent_keepalive |-> s.persistent_keepalive, key |-> k,
      preshared_key |-> s.preshared_key, amnezia_settings |-> None] :
        s \in RenderPeerSettings,
        ips \in DistinctSeqsUpTo(RenderAllowedNetworks, MaxAllowedIps),
        k \in PeerKeys}

\* the peers a printed interface holds
InterfacePeers ==
    {p \in RenderPeers :
        \/ /\ p.allowed_ips = <<Net(V4(10, 0, 0, 2), 32)>>
           /\ p.key = Right("client_public")
           /\ p.endpoint = None /\ p.persistent_keepalive = 0
        \/ /\ p.allowed_ips = <<Net(Fd00(0, 2), 128), Net(V4(10, 0, 0, 0), 24)>>
           /\ p.key = Left("client_private")
           /\ IsSome(p.endpoint) /\ p.persistent_keepalive = 25}

NoHooks == [pre_up |-> <<>>, pre_down |-> <<>>, post_up |-> <<>>, post_down |-> <<>>]

RenderInterfaceSettings ==
    {[endpoint |-> None, listen_port |-> None, dns |-> <<>>, table |-> None,
      mtu |-> None, hooks |-> NoHooks],
     [endpoint |-> Some("network.office.com"), listen_port |-> Some(51820),
      dns |-> <<"1.1.1.1", "1.0.0.1">>, table |-> Some([kind |-> "Off", n |-> 0]),
      mtu |-> Some(1420),
      hooks |-> [pre_up |-> <<"echo pre-up">>, pre_down |-> <<"echo pre-down">>,
                 post_up |-> <<"iptables -A FORWARD -i %i -j ACCEPT",
                               "iptables -A FORWARD -o %i -j ACCEPT">>,
                 post_down |-> <<"iptables -D FORWARD -i %i -j ACCEPT">>]],
     [endpoint |-> None, listen_port |-> None, dns |-> <<>>,
      table |-> Some([kind |-> "Auto", n |-> 0]), mtu |-> None, hooks |-> NoHooks],
     [endpoint |-> None, listen_port |-> Some(12345), dns |-> <<>>,
      table |-> Some([kind |-> "RoutingTable", n |-> 12345]), mtu |-> None,
      hooks |-> NoHooks],
     [endpoint |-> Some("endpoint.example.com"), listen_port |-> None,
      dns |-> <<"1.1.1.1">>, table |-> None, mtu |-> None, hooks |-> NoHooks],
     [endpoint |-> None, listen_port |-> None, dns |-> <<>>, table |-> None,
      mtu |-> Some(1420),
      hooks |-> [NoHooks EXCEPT !.post_up = <<"echo Im the post_up script",
                                              "echo hello">>]]}

\* the amnezia settings and hooks of a printed interface that holds amnezia
\* settings
AmneziaHooks ==
    {NoHooks,
     [NoHooks EXCEPT !.pre_up = <<"echo pre-up", "PreDown = %i">>,
                     !.post_down = <<"echo post-down">>]}

RenderInterfaces ==
    {[endpoint |-> s.endpoint, address |-> a, listen_port |-> s.listen_port,
      private_key |-> "server_private", dns |-> s.dns, table |-> s.table,
      mtu |-> s.mtu, amnezia_settings |-> None,
      pre_up |-> s.hooks.pre_up, pre_down |-> s.hooks.pre_down,
      post_up |-> s.hooks.post_up, post_down |-> s.hooks.post_down,
      peers |-> ps] :
        s \in RenderInterfaceSettings,
        a \in DistinctSeqsUpTo(RenderNetworks, MaxAddresses),
        ps \in SeqsUpTo(InterfacePeers, MaxPeers)}
    \cup
    {[endpoint |-> None, address |-> <<Net(V4(10, 0, 0, 1), 24)>>, listen_port |-> None,
      private_key |-> "server_private", dns |-> <<>>, table |-> None,
      mtu |-> Some(1420), amnezia_settings |-> Some(AmneziaServer),
      pre_up |-> h.pre_up, pre_down |-> h.pre_down,
      post_up |-> h.post_up, post_down |-> h.post_down,
      peers |-> ps] :
        h \in AmneziaHooks, ps \in SeqsUpTo(InterfacePeers, MaxPeers)}

DerivationIdle ==
    /\ client_peer = None /\ server_interface = None /\ options = None
    /\ client_interface = None /\ server_peer = None /\ rederived = None

InitRender ==
    /\ server_interface \in RenderInterfaces
    /\ client_peer = None /\ options = None
    /\ client_interface = None /\ server_peer = None /\ rederived = None
    /\ RenderIdle /\ KeysIdle /\ BuildersIdle /\ AmneziaIdle /\ LegacyIdle

\* server_interface.to_string()
InterfaceToString ==
    /\ interface_conf' = Some(Interface_to_string(server_interface))
    /\ UNCHANGED <<derivationVars, peer_conf, client_conf, keyVars, builderVars,
                   amneziaVars, legacyVars>>

NextRender == InterfaceToString

SpecRender == InitRender /\ [][NextRender]_vars

InitRenderPeer ==
    /\ client_peer \in RenderPeers
    /\ server_interface = None /\ options = None
    /\ client_interface = None /\ server_peer = None /\ rederived = None
    /\ RenderIdle /\ KeysIdle /\ BuildersIdle /\ AmneziaIdle /\ LegacyIdle

\* client_peer.to_string()
PeerToString ==
    /\ peer_conf' = Some(Peer_to_string(client_peer))
    /\ UNCHANGED <<derivationVars, interface_conf, client_conf, keyVars, builderVars,
                   amneziaVars, legacyVars>>

NextRenderPeer == PeerToString

SpecRenderPeer == InitRenderPeer /\ [][NextRenderPeer]_vars

\* the printed texts
Printed == IsSome(interface_conf)
InterfaceText == Unwrap(interface_conf)
PeerPrinted == IsSome(peer_conf)
PeerText == Unwrap(peer_conf)

\* text starts with prefix
starts_with(s, prefix) ==
    Len(s) >= Len(prefix) /\ SubSeq(s, 1, Len(prefix)) = prefix

\* the text of a list of lines, each ended by a newline
RECURSIVE unlines(_)
unlines(lines) ==
    IF Len(lines) = 0 THEN "" ELSE Head(lines) \o "\n" \o unlines(Tail(lines))

\* <<line>> when present holds, no line otherwise
LineIf(present, line) == IF present THEN <<line>> ELSE <<>>

\* ------------------------------------------------------------------------
\* C12: the text of an Interface begins with the lines [Interface],
\* # Name (iff the endpoint is set), Address (always), ListenPort (iff set),
\* PrivateKey (always), DNS (iff dns is non-empty), Table (iff set, as the
\* number, off or auto, an explicit Auto included) and MTU (iff set), in
\* this order, each ended by a newline and the list values joined by a bare
\* comma; what follows these lines, if anything, starts with a blank line;
\* an interface with only addresses and a private key prints as exactly the
\* three lines [Interface], Address and PrivateKey.
\* ------------------------------------------------------------------------
C12_InterfaceLines ==
    Printed =>
        LET i == server_interface
            table == IF ~IsSome(i.table) THEN ""
                     ELSE IF Unwrap(i.table).kind = "Off" THEN "off"
                     ELSE IF Unwrap(i.table).kind = "Auto" THEN "auto"
                     ELSE Dec(Unwrap(i.table).n)
            lines ==
                <<"[Interface]">>
                \o LineIf(IsSome(i.endpoint), "# Name = " \o Unwrap(i.endpoint))
                \o <<"Address = " \o join(address_texts(i.address), ",")>>
                \o LineIf(IsSome(i.listen_port), "ListenPort = " \o Dec(Unwrap(i.listen_port)))
                \o <<"PrivateKey = " \o base64_encode(as_bytes(i.private_key))>>
                \o LineIf(i.dns # <<>>, "DNS = " \o join(i.dns, ","))
                \o LineIf(IsSome(i.table), "Table = " \o table)
                \o LineIf(IsSome(i.mtu), "MTU = " \o Dec(Unwrap(i.mtu)))
            head == unlines(lines)
            rest == SubSeq(InterfaceText, Len(head) + 1, Len(InterfaceText))
            bare == /\ i.endpoint = None /\ i.listen_port = None /\ i.dns = <<>>
                    /\ i.table = None /\ i.mtu = None /\ i.peers = <<>>
                    /\ i.amnezia_settings = None
                    /\ i.pre_up = <<>> /\ i.pre_down = <<>>
                    /\ i.post_up = <<>> /\ i.post_down = <<>>
        IN  /\ starts_with(InterfaceText, head)
            /\ rest = "" \/ starts_with(rest, "\n")
            /\ bare => Len(lines) = 3 /\ InterfaceText = head

\* an interface with every optional line, two addresses and two dns entries
\* has been printed
C12_Witness ==
    /\ Printed
    /\ IsSome(server_interface.endpoint)
    /\ IsSome(server_interface.listen_port)
    /\ IsSome(server_interface.table)
    /\ IsSome(server_interface.mtu)
    /\ Len(server_interface.dns) = 2
    /\ Len(server_interface.address) = 2

\* the first line of a text, without its newline, and a text without a
\* prefix of it
FirstLine(t) ==
    LET end == CHOOSE n \in 1..Len(t) :
                   /\ SubSeq(t, n, n) = "\n"
                   /\ \A m \in 1..(n - 1) : SubSeq(t, m, m) # "\n"
    IN  SubSeq(t, 1, end - 1)

Drop(t, prefix) == SubSeq(t, Len(prefix) + 1, Len(t))

\* the Address line of the printed interface: its second line when no
\* endpoint is set, its third otherwise
AddressLine ==
    FirstLine(Drop(InterfaceText,
                   unlines(<<"[Interface]">>
                           \o LineIf(IsSome(server_interface.endpoint),
                                     "# Name = " \o Unwrap(server_interface.endpoint)))))

\* a network that denotes a single host
SingleHost(net) ==
    \/ is_ipv4(addr(net)) /\ prefix_len(net) = 32
    \/ is_ipv6(addr(net)) /\ prefix_len(net) = 128

\* ------------------------------------------------------------------------
\* C13: in a printed Interface each address is printed without its prefix
\* exactly when it denotes a single host (IPv4 /32 or IPv6 /128) and as
\* address/prefix in every other case, an IPv6 network of prefix length 32
\* included; the rule applies to each element of the list by itself.
\* ------------------------------------------------------------------------
C13_HostPrefixStripped ==
    Printed =>
        LET address == server_interface.address
            expected ==
                [i \in 1..Len(address) |->
                    IF SingleHost(address[i])
                    THEN IpAddr_to_string(addr(address[i]))
                    ELSE IpAddr_to_string(addr(address[i])) \o "/"
                         \o Dec(prefix_len(address[i]))]
        IN  AddressLine = "Address = " \o join(expected, ",")

\* the AllowedIPs line of the printed peer: its second line when no endpoint
\* is set, its third otherwise
AllowedIPsLine ==
    FirstLine(Drop(PeerText,
                   unlines(<<"[Peer]">>
                           \o LineIf(IsSome(client_peer.endpoint),
                                     "Endpoint = " \o Unwrap(client_peer.endpoint)))))

\* ------------------------------------------------------------------------
\* C14: in a printed Peer, allowed ips that denote a single host (IPv4 /32,
\* IPv6 /128) are printed as bare addresses, as Interface addresses are.
\* ------------------------------------------------------------------------
C14_PeerHostPrefixStripped ==
    (/\ PeerPrinted
     /\ client_peer.allowed_ips # <<>>
     /\ \A i \in 1..Len(client_peer.allowed_ips) : SingleHost(client_peer.allowed_ips[i]))
    => AllowedIPsLine =
           "AllowedIPs = "
           \o join([i \in 1..Len(client_peer.allowed_ips) |->
                       IpAddr_to_string(addr(client_peer.allowed_ips[i]))], ",")

\* the printed interface up to its peers: the text of the same interface
\* holding no peer
BeforePeers == Interface_to_string([server_interface EXCEPT !.peers = <<>>])

\* each peer as a blank line and its block
RECURSIVE BlankThenBlock(_)
BlankThenBlock(peers) ==
    IF Len(peers) = 0 THEN ""
    ELSE "\n" \o Peer_to_string(Head(peers)) \o BlankThenBlock(Tail(peers))

\* each peer as a blank line, its block and one more blank line
RECURSIVE BlankBlockBlank(_)
BlankBlockBlank(peers) ==
    IF Len(peers) = 0 THEN ""
    ELSE "\n" \o Peer_to_string(Head(peers)) \o "\n" \o BlankBlockBlank(Tail(peers))

\* ------------------------------------------------------------------------
\* C15: in a printed Interface every peer is printed, in the order of the
\* peers list, as exactly one blank line followed by the text Display for
\* Peer produces; consecutive peer blocks are separated by exactly one blank
\* line and nothing follows the last peer block.
\* ------------------------------------------------------------------------
C15_PeerBlocks ==
    Printed => InterfaceText = BeforePeers \o BlankThenBlock(server_interface.peers)

\* C15 as the code has it: every peer is printed, in the order of the peers
\* list, as one blank line, the text Display for Peer produces and one more
\* blank line; consecutive peer blocks are separated by two blank lines and
\* a blank line follows the last peer block.
C15_PeerBlocksBlankAfter ==
    Printed => InterfaceText = BeforePeers \o BlankBlockBlank(server_interface.peers)

\* an interface with two different peers has been printed
C15_Witness ==
    /\ Printed
    /\ Len(server_interface.peers) = 2
    /\ server_interface.peers[1] # server_interface.peers[2]

\* part occurs in the text t
ContainsText(t, part) ==
    \E i \in 1..(Len(t) - Len(part) + 1) : SubSeq(t, i, i + Len(part) - 1) = part

\* the public key a peer is known by
PeerPublicKey(peer) ==
    IF peer.key.tag = "Right" THEN peer.key.val ELSE PublicKey_from(peer.key.val)

\* ------------------------------------------------------------------------
\* C16: the text of a Peer is the lines [Peer], Endpoint (iff the endpoint
\* is set), AllowedIPs (always, the list comma-joined in stored order),
\* PublicKey (always), PresharedKey (iff set) and PersistentKeepalive (iff
\* persistent_keepalive is not 0), in this order; a keepalive of 0 never
\* produces a line.
\* ------------------------------------------------------------------------
C16_PeerLines ==
    PeerPrinted =>
        LET p == client_peer
        IN  PeerText =
                unlines(<<"[Peer]">>
                        \o LineIf(IsSome(p.endpoint), "Endpoint = " \o Unwrap(p.endpoint))
                        \o <<"AllowedIPs = " \o join(to_strings(p.allowed_ips), ",")>>
                        \o <<"PublicKey = " \o base64_encode(as_bytes(PeerPublicKey(p)))>>
                        \o LineIf(IsSome(p.preshared_key),
                                  "PresharedKey = "
                                  \o base64_encode(as_bytes(Unwrap(p.preshared_key))))
                        \o LineIf(p.persistent_keepalive # 0,
                                  "PersistentKeepalive = " \o Dec(p.persistent_keepalive)))

\* a peer with an endpoint, two allowed ips and a preshared key but a
\* keepalive of 0 has been printed
C16_Witness ==
    /\ PeerPrinted
    /\ IsSome(client_peer.endpoint)
    /\ Len(client_peer.allowed_ips) = 2
    /\ client_peer.persistent_keepalive = 0

\* ------------------------------------------------------------------------
\* C17: the PublicKey line of a printed Peer holds the peer's public key
\* when it holds one and the public key derived from its private key when
\* it holds a private key: a Peer with key = private(k) prints the text of
\* the otherwise identical Peer with key = public(derive_public(k)).
\* ------------------------------------------------------------------------
C17_PublicKeyLine ==
    PeerPrinted =>
        /\ ContainsText(PeerText,
                        "\nPublicKey = "
                        \o base64_encode(as_bytes(PeerPublicKey(client_peer))) \o "\n")
        /\ client_peer.key.tag = "Left" =>
               PeerText = Peer_to_string([client_peer EXCEPT
                              !.key = Right(PublicKey_from(client_peer.key.val))])

\* a peer that holds a private key has been printed
C17_Witness ==
    /\ PeerPrinted
    /\ client_peer.key.tag = "Left"
    /\ IsSome(client_peer.preshared_key)

\* ------------------------------------------------------------------------
\* Keys as text: TryFrom<&str> and TryFrom<String> of the three key types.
\* An imported key is the 32 bytes it wraps (keys compare by their bytes).
\* ------------------------------------------------------------------------

\* StaticSecret::from(bytes) as a clamping constructor would have it
clamp(bytes) ==
    [i \in 1..Len(bytes) |->
        IF i = 1 THEN bytes[i] - (bytes[i] % 8)
        ELSE IF i = Len(bytes) THEN (bytes[i] % 64) + 64
        ELSE bytes[i]]

PrivateKey_try_from_clamped(value) ==
    LET bytes == base64_decode(value)
    IN  IF bytes = None THEN Err("InvalidPrivateKey")
        ELSE IF Len(Unwrap(bytes)) # KeyLen THEN Err("InvalidPrivateKey")
        ELSE Ok(clamp(Unwrap(bytes)))

\* impl TryFrom<&str> for PrivateKey
PrivateKey_try_from(value) ==
    LET bytes == base64_decode(value)
    IN  IF bytes = None THEN Err("InvalidPrivateKey")
        ELSE IF Len(Unwrap(bytes)) # KeyLen THEN Err("InvalidPrivateKey")
        ELSE Ok(Unwrap(bytes))

\* impl TryFrom<String> for PrivateKey
PrivateKey_try_from_string(value) == PrivateKey_try_from(value)

PublicKey_try_from_private_error(value) ==
    LET bytes == base64_decode(value)
    IN  IF bytes = None THEN Err("InvalidPublicKey")
        ELSE IF Len(Unwrap(bytes)) # KeyLen THEN Err("InvalidPrivateKey")
        ELSE Ok(Unwrap(bytes))

\* impl TryFrom<&str> for PublicKey
PublicKey_try_from(value) ==
    LET bytes == base64_decode(value)
    IN  IF bytes = None THEN Err("InvalidPublicKey")
        ELSE IF Len(Unwrap(bytes)) # KeyLen THEN Err("InvalidPublicKey")
        ELSE Ok(Unwrap(bytes))

\* impl TryFrom<String> for PublicKey
PublicKey_try_from_string(value) == PublicKey_try_from(value)

\* impl TryFrom<&str> for PresharedKey and impl TryFrom<String> for
\* PresharedKey
PresharedKey_try_from(value) ==
    LET bytes == base64_decode(value)
    IN  IF bytes = None THEN Err("InvalidPresharedKey")
        ELSE IF Len(Unwrap(bytes)) # KeyLen THEN Err("InvalidPresharedKey")
        ELSE Ok(Unwrap(bytes))

PresharedKey_try_from_string(value) == PresharedKey_try_from(value)

KeyTypes == {"PrivateKey", "PublicKey", "PresharedKey"}

\* key.to_string() of a key of type type
Key_to_string(type, k) ==
    IF type = "PrivateKey" THEN PrivateKey_to_string(k)
    ELSE IF type = "PublicKey" THEN PublicKey_to_string(k)
    ELSE PresharedKey_to_string(k)

\* <type>::try_from(value), value a &str or a String
Key_try_from(type, form, value) ==
    IF type = "PrivateKey"
    THEN IF form = "&str" THEN PrivateKey_try_from(value)
         ELSE PrivateKey_try_from_string(value)
    ELSE IF type = "PublicKey"
    THEN IF form = "&str" THEN PublicKey_try_from(value)
         ELSE PublicKey_try_from_string(value)
    ELSE IF form = "&str" THEN PresharedKey_try_from(value)
         ELSE PresharedKey_try_from_string(value)

KeyNames ==
    {"client_private", "client_public", "server_private", "server_public",
     "preshared", "zeroes", "ones"}

\* text with the symbol at position i replaced by c
Replaced(t, i, c) == SubSeq(t, 1, i - 1) \o c \o SubSeq(t, i + 1, Len(t))

\* texts a key is imported from: the text of every key; and texts that are
\* no key: the text of the crate's test, the empty text, the base64 of 30,
\* 31, 33 and 36 bytes, and a key's text with a symbol of the URL-safe
\* alphabet, with a padding sign in its middle, without its padding, with a
\* second padding sign, with a last symbol that leaves bits over, and with a
\* newline after it
KeyTexts ==
    LET bytes == as_bytes("client_private")
        key_text_ == base64_encode(bytes)
    IN  {base64_encode(as_bytes(k)) : k \in KeyNames}
        \cup {"ThisWillBeErrored", "",
              base64_encode(SubSeq(bytes, 1, 30)),
              base64_encode(SubSeq(bytes, 1, 31)),
              base64_encode(bytes \o <<0>>),
              base64_encode(bytes \o <<1, 2, 3, 4>>),
              Replaced(key_text_, 28, "-"),
              Replaced(key_text_, 5, "="),
              SubSeq(key_text_, 1, 43),
              key_text_ \o "=",
              Replaced(key_text_, 43, "p"),
              key_text_ \o "\n"}

InitKeys ==
    /\ key_type \in KeyTypes
    /\ key_value \in KeyNames
    /\ key_text \in KeyTexts
    /\ encoded = None /\ decoded = None /\ reimported = None
    /\ DerivationIdle /\ RenderIdle /\ BuildersIdle /\ AmneziaIdle /\ LegacyIdle

\* key_value.to_string()
KeyToString ==
    /\ encoded' = Some(Key_to_string(key_type, key_value))
    /\ UNCHANGED <<key_type, key_value, key_text, decoded, reimported>>
    /\ UNCHANGED <<derivationVars, renderVars, builderVars, amneziaVars, legacyVars>>

\* <key_type>::try_from(key_text)
TryFromText ==
    /\ \E form \in {"&str", "String"} :
          decoded' = Some(Key_try_from(key_type, form, key_text))
    /\ UNCHANGED <<key_type, key_value, key_text, encoded, reimported>>
    /\ UNCHANGED <<derivationVars, renderVars, builderVars, amneziaVars, legacyVars>>

\* <key_type>::try_from(encoded), encoded the text of key_value
TryFromEncoded ==
    /\ IsSome(encoded)
    /\ \E form \in {"&str", "String"} :
          reimported' = Some(Key_try_from(key_type, form, Unwrap(encoded)))
    /\ UNCHANGED <<key_type, key_value, key_text, encoded, decoded>>
    /\ UNCHANGED <<derivationVars, renderVars, builderVars, amneziaVars, legacyVars>>

NextKeys == KeyToString \/ TryFromText \/ TryFromEncoded

SpecKeys == InitKeys /\ [][NextKeys]_vars

\* ------------------------------------------------------------------------
\* C18: for each key type and every key k, importing the text of k, from a
\* &str or a String, succeeds and yields k.
\* ------------------------------------------------------------------------
C18_KeyRoundTrip ==
    IsSome(reimported) => Unwrap(reimported) = Ok(as_bytes(key_value))

\* the text of a private key whose bytes a clamping constructor would change
\* has been imported
C18_Witness ==
    /\ IsSome(reimported)
    /\ key_type = "PrivateKey"
    /\ key_value = "ones"

\* standard-alphabet base64 as the encoder produces it: whole groups of four
\* signs, symbols of the alphabet followed by at most two padding signs, and
\* no bits left over in the last symbol
ValidBase64(t) ==
    LET data == SubSeq(t, 1, Len(t) - Padding(t))
        last == Unwrap(SymbolValue(SubSeq(data, Len(data), Len(data))))
    IN  /\ Len(t) % 4 = 0
        /\ \A i \in 1..Len(data) : \E v \in 0..63 : SubSeq(data, i, i) = Symbol(v)
        /\ Len(data) % 4 # 1
        /\ Len(data) % 4 = 2 => last % 16 = 0
        /\ Len(data) % 4 = 3 => last % 4 = 0

\* the number of bytes a base64 text stands for
DecodedLen(t) == ((Len(t) - Padding(t)) * 6) \div 8

ErrorKind(type) ==
    IF type = "PrivateKey" THEN "InvalidPrivateKey"
    ELSE IF type = "PublicKey" THEN "InvalidPublicKey"
    ELSE "InvalidPresharedKey"

\* ------------------------------------------------------------------------
\* C19: importing a key from a text fails exactly when the text is not
\* valid standard-alphabet base64 or stands for a number of bytes other than
\* 32, and succeeds on every other text; the error is the one of the key
\* type imported, whichever the cause.
\* ------------------------------------------------------------------------
C19_KeyImportErrors ==
    IsSome(decoded) =>
        LET r == Unwrap(decoded)
        IN  /\ r.ok <=> (ValidBase64(key_text) /\ DecodedLen(key_text) = KeyLen)
            /\ ~r.ok => r.err = ErrorKind(key_type)

\* a public key has been imported from valid base64 of the wrong length, and
\* the import failed
C19_Witness ==
    /\ IsSome(decoded)
    /\ key_type = "PublicKey"
    /\ ValidBase64(key_text)
    /\ DecodedLen(key_text) = KeyLen + 1
    /\ ~Unwrap(decoded).ok

\* ------------------------------------------------------------------------
\* Builders (derive_builder): a builder holds an Option per field of the
\* value it builds, None until the field's setter is called.
\* ------------------------------------------------------------------------
InterfaceFields ==
    {"address", "listen_port", "private_key", "dns", "endpoint", "table", "mtu",
     "amnezia_settings", "pre_up", "pre_down", "post_up", "post_down", "peers"}

PeerFields ==
    {"endpoint", "allowed_ips", "persistent_keepalive", "key", "preshared_key",
     "amnezia_settings"}

\* the fields whose type is an Option and whose setter takes the bare value
\* (strip_option)
OptionFields == {"listen_port", "endpoint", "table", "mtu", "amnezia_settings",
                 "preshared_key"}

\* InterfaceBuilder::new() and PeerBuilder::new(): Self::default()
InterfaceBuilder_new == [f \in InterfaceFields |-> None]
PeerBuilder_new == [f \in PeerFields |-> None]

\* a generated setter: self.field = Some(value), an Option field wrapping
\* the value
set(self, field, value) ==
    [self EXCEPT ![field] = Some(IF field \in OptionFields THEN Some(value) ELSE value)]

\* the field of a builder, or the field's default
field_or(self, field, default) ==
    IF IsSome(self[field]) THEN Unwrap(self[field]) ELSE default

add_network_keeps_default(self, value) ==
    LET started == IF self.address = None
                   THEN [self EXCEPT !.address = Some(<<IpNet_new_assert(Ipv4Unspecified, 0)>>)]
                   ELSE self
    IN  [started EXCEPT !.address = Some(Append(Unwrap(@), value))]

\* InterfaceBuilder::add_network
add_network(self, value) ==
    LET started == IF self.address = None THEN [self EXCEPT !.address = Some(<<>>)]
                   ELSE self
    IN  [started EXCEPT !.address = Some(Append(Unwrap(@), value))]

\* InterfaceBuilder::add_address
add_address(self, value) ==
    LET started == IF self.address = None THEN [self EXCEPT !.address = Some(<<>>)]
                   ELSE self
        ip_net == IF is_ipv4(value) THEN IpNet_new_assert(value, 32)
                  ELSE IpNet_new_assert(value, 128)
    IN  [started EXCEPT !.address = Some(Append(Unwrap(@), ip_net))]

InterfaceBuilder_build_auto_table(self, random_key) ==
    [address |-> field_or(self, "address", <<IpNet_new_assert(Ipv4Unspecified, 0)>>),
     listen_port |-> field_or(self, "listen_port", None),
     private_key |-> field_or(self, "private_key", random_key),
     dns |-> field_or(self, "dns", <<>>),
     endpoint |-> field_or(self, "endpoint", None),
     table |-> field_or(self, "table", Some([kind |-> "Auto", n |-> 0])),
     mtu |-> field_or(self, "mtu", None),
     amnezia_settings |-> field_or(self, "amnezia_settings", None),
     pre_up |-> field_or(self, "pre_up", <<>>),
     pre_down |-> field_or(self, "pre_down", <<>>),
     post_up |-> field_or(self, "post_up", <<>>),
     post_down |-> field_or(self, "post_down", <<>>),
     peers |-> field_or(self, "peers", <<>>)]

\* InterfaceBuilder::build: every field from the builder or from its
\* default; random_key is the key PrivateKey::random() yields
InterfaceBuilder_build(self, random_key) ==
    [address |-> field_or(self, "address", <<IpNet_new_assert(Ipv4Unspecified, 0)>>),
     listen_port |-> field_or(self, "listen_port", None),
     private_key |-> field_or(self, "private_key", random_key),
     dns |-> field_or(self, "dns", <<>>),
     endpoint |-> field_or(self, "endpoint", None),
     table |-> field_or(self, "table", None),
     mtu |-> field_or(self, "mtu", None),
     amnezia_settings |-> field_or(self, "amnezia_settings", None),
     pre_up |-> field_or(self, "pre_up", <<>>),
     pre_down |-> field_or(self, "pre_down", <<>>),
     post_up |-> field_or(self, "post_up", <<>>),
     post_down |-> field_or(self, "post_down", <<>>),
     peers |-> field_or(self, "peers", <<>>)]

\* PeerBuilder::private_key and PeerBuilder::public_key
PeerBuilder_private_key(self, value) == [self EXCEPT !.key = Some(Left(value))]
PeerBuilder_public_key(self, value) == [self EXCEPT !.key = Some(Right(value))]

\* PeerBuilder::build
PeerBuilder_build(self, random_key) ==
    [endpoint |-> field_or(self, "endpoint", None),
     allowed_ips |-> field_or(self, "allowed_ips", <<>>),
     persistent_keepalive |-> field_or(self, "persistent_keepalive", 0),
     key |-> field_or(self, "key", Left(random_key)),
     preshared_key |-> field_or(self, "preshared_key", None),
     amnezia_settings |-> field_or(self, "amnezia_settings", None)]

\* the values the setters of an InterfaceBuilder are called with
InterfaceSetterValues(field) ==
    IF field = "address" THEN {<<Net(V4(10, 0, 0, 1), 24)>>}
    ELSE IF field = "listen_port" THEN {12345}
    ELSE IF field = "private_key" THEN {"server_private"}
    ELSE IF field = "dns" THEN {<<"1.1.1.1", "1.0.0.1">>}
    ELSE IF field = "endpoint" THEN {"endpoint.example.com"}
    ELSE IF field = "table"
    THEN {[kind |-> "Off", n |-> 0], [kind |-> "Auto", n |-> 0],
          [kind |-> "RoutingTable", n |-> 12345]}
    ELSE IF field = "mtu" THEN {1420}
    ELSE IF field = "amnezia_settings" THEN {AmneziaServer}
    ELSE IF field = "peers"
    THEN {<<PeerBuilder_build(PeerBuilder_new, "client_private")>>}
    ELSE {<<"echo Im the " \o field \o " script", "echo hello">>}

\* the values the setters of a PeerBuilder are called with
PeerSetterValues(field) ==
    IF field = "endpoint" THEN {"peer.example.com"}
    ELSE IF field = "allowed_ips"
    THEN {<<>>, <<Net(V4(1, 2, 3, 4), 16), Net(Fd00(0, 1), 48)>>}
    ELSE IF field = "persistent_keepalive" THEN {0, 25}
    ELSE IF field = "key" THEN PeerKeys
    ELSE IF field = "preshared_key" THEN {"preshared"}
    ELSE {AmneziaClient}

\* the networks and addresses add_network and add_address are called with
AddedNetworks == {Net(V4(1, 2, 3, 4), 16)}
AddedAddresses == {V4(1, 2, 3, 4), Fd00(0, 1)}

\* the number of fields of a builder that are set
FieldsSet(self) == Cardinality({f \in DOMAIN self : IsSome(self[f])})

\* a further field may be set
MaySet(self, field) == IsSome(self[field]) \/ FieldsSet(self) < MaxFieldsSet

\* a caller that has no builder yet
InitBuilders ==
    /\ interface_builder = None /\ peer_builder = None
    /\ built_interface = None /\ built_peer = None
    /\ address_calls = <<>>
    /\ DerivationIdle /\ RenderIdle /\ KeysIdle /\ AmneziaIdle /\ LegacyIdle

\* let mut builder = InterfaceBuilder::new()
NewInterfaceBuilder ==
    /\ interface_builder = None /\ peer_builder = None
    /\ interface_builder' = Some(InterfaceBuilder_new)
    /\ UNCHANGED <<peer_builder, built_interface, built_peer, address_calls>>
    /\ UNCHANGED <<derivationVars, renderVars, keyVars, amneziaVars, legacyVars>>

\* let mut builder = PeerBuilder::new()
NewPeerBuilder ==
    /\ interface_builder = None /\ peer_builder = None
    /\ peer_builder' = Some(PeerBuilder_new)
    /\ UNCHANGED <<interface_builder, built_interface, built_peer, address_calls>>
    /\ UNCHANGED <<derivationVars, renderVars, keyVars, amneziaVars, legacyVars>>

\* builder.<field>(value); address_calls records the calls that are made on
\* the address
InterfaceSet ==
    /\ IsSome(interface_builder) /\ built_interface = None
    /\ \E field \in InterfaceFields :
          /\ MaySet(Unwrap(interface_builder), field)
          /\ field = "address" => Len(address_calls) < MaxAddressCalls
          /\ \E value \in InterfaceSetterValues(field) :
                /\ interface_builder' = Some(set(Unwrap(interface_builder), field, value))
                /\ address_calls' =
                      IF field = "address"
                      THEN Append(address_calls, [call |-> "address", value |-> value])
                      ELSE address_calls
    /\ UNCHANGED <<peer_builder, built_interface, built_peer>>
    /\ UNCHANGED <<derivationVars, renderVars, keyVars, amneziaVars, legacyVars>>

\* builder.add_network(value)
AddNetwork ==
    /\ IsSome(interface_builder) /\ built_interface = None
    /\ MaySet(Unwrap(interface_builder), "address")
    /\ Len(field_or(Unwrap(interface_builder), "address", <<>>)) < MaxAddresses
    /\ Len(address_calls) < MaxAddressCalls
    /\ \E value \in AddedNetworks :
          /\ interface_builder' = Some(add_network(Unwrap(interface_builder), value))
          /\ address_calls' =
                Append(address_calls, [call |-> "add_network", value |-> value])
    /\ UNCHANGED <<peer_builder, built_interface, built_peer>>
    /\ UNCHANGED <<derivationVars, renderVars, keyVars, amneziaVars, legacyVars>>

\* builder.add_address(value)
AddAddress ==
    /\ IsSome(interface_builder) /\ built_interface = None
    /\ MaySet(Unwrap(interface_builder), "address")
    /\ Len(field_or(Unwrap(interface_builder), "address", <<>>)) < MaxAddresses
    /\ Len(address_calls) < MaxAddressCalls
    /\ \E value \in AddedAddresses :
          /\ interface_builder' = Some(add_address(Unwrap(interface_builder), value))
          /\ address_calls' =
                Append(address_calls, [call |-> "add_address", value |-> value])
    /\ UNCHANGED <<peer_builder, built_interface, built_peer>>
    /\ UNCHANGED <<derivationVars, renderVars, keyVars, amneziaVars, legacyVars>>

\* builder.build(), PrivateKey::random() yielding any key
BuildInterface ==
    /\ IsSome(interface_builder)
    /\ \E random_key \in PrivateKeys :
          built_interface' = Some(InterfaceBuilder_build(Unwrap(interface_builder),
                                                         random_key))
    /\ UNCHANGED <<interface_builder, peer_builder, built_peer, address_calls>>
    /\ UNCHANGED <<derivationVars, renderVars, keyVars, amneziaVars, legacyVars>>

\* builder.<field>(value)
PeerSet ==
    /\ IsSome(peer_builder) /\ built_peer = None
    /\ \E field \in PeerFields :
          /\ MaySet(Unwrap(peer_builder), field)
          /\ \E value \in PeerSetterValues(field) :
                peer_builder' = Some(set(Unwrap(peer_builder), field, value))
    /\ UNCHANGED <<interface_builder, built_interface, built_peer, address_calls>>
    /\ UNCHANGED <<derivationVars, renderVars, keyVars, amneziaVars, legacyVars>>

\* builder.private_key(value) and builder.public_key(value)
PeerSetKey ==
    /\ IsSome(peer_builder) /\ built_peer = None
    /\ MaySet(Unwrap(peer_builder), "key")
    /\ \/ peer_builder' = Some(PeerBuilder_private_key(Unwrap(peer_builder),
                                                      "client_private"))
       \/ peer_builder' = Some(PeerBuilder_public_key(Unwrap(peer_builder),
                                                     "client_public"))
    /\ UNCHANGED <<interface_builder, built_interface, built_peer, address_calls>>
    /\ UNCHANGED <<derivationVars, renderVars, keyVars, amneziaVars, legacyVars>>

\* builder.build(), PrivateKey::random() yielding any key
BuildPeer ==
    /\ IsSome(peer_builder)
    /\ \E random_key \in PrivateKeys :
          built_peer' = Some(PeerBuilder_build(Unwrap(peer_builder), random_key))
    /\ UNCHANGED <<interface_builder, peer_builder, built_interface, address_calls>>
    /\ UNCHANGED <<derivationVars, renderVars, keyVars, amneziaVars, legacyVars>>

NextBuilders ==
    \/ NewInterfaceBuilder \/ NewPeerBuilder
    \/ InterfaceSet \/ AddNetwork \/ AddAddress \/ BuildInterface
    \/ PeerSet \/ PeerSetKey \/ BuildPeer

SpecBuilders == InitBuilders /\ [][NextBuilders]_vars

\* the value a field set through its setter is built to, default when the
\* field was not set
BuiltFrom(builder, field, default) ==
    IF builder[field] = None THEN default
    ELSE IF field \in OptionFields THEN Some(Unwrap(Unwrap(builder[field])))
    ELSE Unwrap(builder[field])

\* ------------------------------------------------------------------------
\* C20: the builders are total and apply defaults.  A built Interface has
\* the single address 0.0.0.0/0, a generated private key, no listen_port,
\* endpoint, table, mtu or amnezia_settings and empty dns, hooks and peers,
\* and a built Peer has a generated private key as its key, no allowed ips,
\* keepalive 0, no endpoint and no preshared key, except that every field
\* set through its setter holds the value it was set to.
\* ------------------------------------------------------------------------
C20_BuilderDefaults ==
    /\ IsSome(built_interface) =>
           LET b == Unwrap(interface_builder)
               i == Unwrap(built_interface)
           IN  /\ i.address = BuiltFrom(b, "address", <<Net(V4(0, 0, 0, 0), 0)>>)
               /\ IF b.private_key = None THEN i.private_key \in PrivateKeys
                  ELSE i.private_key = Unwrap(b.private_key)
               /\ \A f \in {"listen_port", "endpoint", "table", "mtu", "amnezia_settings"} :
                      i[f] = BuiltFrom(b, f, None)
               /\ \A f \in {"dns", "pre_up", "pre_down", "post_up", "post_down", "peers"} :
                      i[f] = BuiltFrom(b, f, <<>>)
    /\ IsSome(built_peer) =>
           LET b == Unwrap(peer_builder)
               p == Unwrap(built_peer)
           IN  /\ IF b.key = None
                  THEN p.key.tag = "Left" /\ p.key.val \in PrivateKeys
                  ELSE p.key = Unwrap(b.key)
               /\ p.allowed_ips = BuiltFrom(b, "allowed_ips", <<>>)
               /\ p.persistent_keepalive = BuiltFrom(b, "persistent_keepalive", 0)
               /\ \A f \in {"endpoint", "preshared_key", "amnezia_settings"} :
                      p[f] = BuiltFrom(b, f, None)

\* a builder that was given nothing has built an Interface
C20_Witness ==
    /\ IsSome(built_interface)
    /\ interface_builder = Some(InterfaceBuilder_new)
    /\ Unwrap(built_interface).address = <<Net(V4(0, 0, 0, 0), 0)>>
    /\ Unwrap(built_interface).table = None

\* the position of the last address(list) call among the calls, 0 if none
LastAddressCall(calls) ==
    LET at == {i \in 1..Len(calls) : calls[i].call = "address"}
    IN  IF at = {} THEN 0 ELSE CHOOSE i \in at : \A j \in at : j <= i

\* the network an add_network or add_address call contributes
AddedNetwork(c) ==
    IF c.call = "add_network" THEN c.value
    ELSE [addr |-> c.value, prefix_len |-> IF c.value.fam = "v4" THEN 32 ELSE 128]

\* the list of the last address(list) call, the empty list if there was
\* none, followed by the networks added after it
AddressCalled(calls) ==
    LET last == LastAddressCall(calls)
    IN  (IF last = 0 THEN <<>> ELSE calls[last].value)
        \o [k \in 1..(Len(calls) - last) |-> AddedNetwork(calls[last + k])]

\* ------------------------------------------------------------------------
\* C21: after n >= 1 add_network / add_address calls on a fresh
\* InterfaceBuilder the built address is the n added networks in call order,
\* without the default 0.0.0.0/0; add_address(a) contributes a/32 for an
\* IPv4 a and a/128 for an IPv6 a; address(list) replaces everything added
\* before it and later add_* calls append to that list.
\* ------------------------------------------------------------------------
C21_AddressCalls ==
    (IsSome(built_interface) /\ address_calls # <<>>) =>
        LET address == Unwrap(built_interface).address
        IN  /\ address = AddressCalled(address_calls)
            /\ LastAddressCall(address_calls) = 0 =>
                   /\ Len(address) = Len(address_calls)
                   /\ \A i \in 1..Len(address) :
                          address[i] = AddedNetwork(address_calls[i])
                   /\ address[1] # Net(V4(0, 0, 0, 0), 0)

\* a network was added, then the address was set to a list and an IPv6
\* address was added to it
C21_Witness ==
    /\ IsSome(built_interface)
    /\ Len(address_calls) = 3
    /\ address_calls[1].call = "add_network"
    /\ address_calls[2].call = "address"
    /\ address_calls[3] = [call |-> "add_address", value |-> Fd00(0, 1)]
    /\ Unwrap(built_interface).address = <<Net(V4(10, 0, 0, 1), 24), Net(Fd00(0, 1), 128)>>

\* ------------------------------------------------------------------------
\* AmneziaSettings::validate.  The allowed ranges are not spelled out: the
\* model takes the values the crate's tests use, 9999 standing for a value
\* out of the range of any field and every smaller value being in range.
\* ------------------------------------------------------------------------
OutOfRange == 9999
S1Offset == 56

in_range(v) == v < OutOfRange

InvalidAmneziaSetting(label) == Err("InvalidAmneziaSetting(" \o label \o ")")

\* h1..h4 are pairwise distinct
headers_unique(self) == Cardinality({self.h1, self.h2, self.h3, self.h4}) = 4

AmneziaSettings_validate_first_headers(self) ==
    IF ~in_range(self.jc) THEN InvalidAmneziaSetting("Jc")
    ELSE IF self.jmin > self.jmax \/ ~in_range(self.jmin) THEN InvalidAmneziaSetting("Jmin")
    ELSE IF ~in_range(self.jmax) THEN InvalidAmneziaSetting("Jmax")
    ELSE IF ~in_range(self.s1) \/ self.s1 + S1Offset = self.s2
    THEN InvalidAmneziaSetting("S1")
    ELSE IF ~in_range(self.s2) THEN InvalidAmneziaSetting("S2")
    ELSE IF self.h1 = self.h2 THEN InvalidAmneziaSetting("H1/H2/H3/H4")
    ELSE Ok("unit")

\* the checks in their fixed order, the first one that fails deciding the
\* result
AmneziaSettings_validate(self) ==
    IF ~in_range(self.jc) THEN InvalidAmneziaSetting("Jc")
    ELSE IF self.jmin > self.jmax \/ ~in_range(self.jmin) THEN InvalidAmneziaSetting("Jmin")
    ELSE IF ~in_range(self.jmax) THEN InvalidAmneziaSetting("Jmax")
    ELSE IF ~in_range(self.s1) \/ self.s1 + S1Offset = self.s2
    THEN InvalidAmneziaSetting("S1")
    ELSE IF ~in_range(self.s2) THEN InvalidAmneziaSetting("S2")
    ELSE IF ~headers_unique(self) THEN InvalidAmneziaSetting("H1/H2/H3/H4")
    ELSE Ok("unit")

\* the settings that are validated: the values of the crate's tests, and
\* every pattern of equal headers
ValidatedSettings ==
    {[jc |-> jc, jmin |-> jmin, jmax |-> jmax, s1 |-> s1, s2 |-> s2,
      h1 |-> 1111, h2 |-> h2, h3 |-> h3, h4 |-> h4] :
        jc \in {4, OutOfRange}, jmin \in {50, 100, OutOfRange}, jmax \in {50, OutOfRange},
        s1 \in {100, OutOfRange}, s2 \in {100, 100 + S1Offset, OutOfRange},
        h2 \in {1111, 2222}, h3 \in {1111, 2222, 3333},
        h4 \in {1111, 2222, 3333, 4444}}

InitAmnezia ==
    /\ settings \in {Some(a) : a \in ValidatedSettings}
    /\ validated = None
    /\ DerivationIdle /\ RenderIdle /\ KeysIdle /\ BuildersIdle /\ LegacyIdle

\* settings.validate()
Validate ==
    /\ IsSome(settings)
    /\ validated' = Some(AmneziaSettings_validate(Unwrap(settings)))
    /\ UNCHANGED <<settings, derivationVars, renderVars, keyVars, builderVars, legacyVars>>

NextAmnezia == Validate

SpecAmnezia == InitAmnezia /\ [][NextAmnezia]_vars

\* the labels of the checks in the order they are made
CheckOrder == <<"Jc", "Jmin", "Jmax", "S1", "S2", "H1/H2/H3/H4">>

\* the check of a label is violated by the settings
Violates(a, label) ==
    IF label = "Jc" THEN a.jc >= OutOfRange
    ELSE IF label = "Jmin" THEN a.jmin > a.jmax \/ a.jmin >= OutOfRange
    ELSE IF label = "Jmax" THEN a.jmax >= OutOfRange
    ELSE IF label = "S1" THEN a.s1 >= OutOfRange \/ a.s1 + 56 = a.s2
    ELSE IF label = "S2" THEN a.s2 >= OutOfRange
    ELSE \E x, y \in {"h1", "h2", "h3", "h4"} : x # y /\ a[x] = a[y]

ViolatedChecks(a) == {i \in 1..Len(CheckOrder) : Violates(a, CheckOrder[i])}

\* ------------------------------------------------------------------------
\* C22: validate reports only the first violated check in the order Jc,
\* Jmin (jmin > jmax or jmin out of range), Jmax, S1 (s1 out of range or
\* s1 + 56 = s2), S2, H1/H2/H3/H4 (any two of h1..h4 equal): with several
\* checks violated the label is the earliest of them, and settings that
\* violate none validate Ok.
\* ------------------------------------------------------------------------
C22_FirstViolatedCheck ==
    IsSome(validated) =>
        LET violated == ViolatedChecks(Unwrap(settings))
            result == Unwrap(validated)
        IN  IF violated = {} THEN result.ok
            ELSE \E i \in violated :
                    /\ \A j \in violated : i <= j
                    /\ ~result.ok
                    /\ result.err = "InvalidAmneziaSetting(" \o CheckOrder[i] \o ")"

\* jmax and s2 are out of range and h3 = h4 while h1 # h2: Jmax is reported
C22_Witness ==
    /\ IsSome(validated)
    /\ LET a == Unwrap(settings)
       IN  /\ ViolatedChecks(a) = {3, 5, 6}
           /\ a.h1 # a.h2 /\ a.h3 = a.h4
    /\ Unwrap(validated) = Err("InvalidAmneziaSetting(Jmax)")

\* the lines of one group of hooks: nothing for an empty list, else a blank
\* line and a line per snippet
HookLines(name, snippets) ==
    IF snippets = <<>> THEN ""
    ELSE "\n" \o unlines([k \in 1..Len(snippets) |-> name \o " = " \o snippets[k]])

\* the printed interface without its hooks: the text of the same interface
\* holding no hook, and the part of it that ends with the MTU position: the
\* text of the same interface holding no hook, amnezia settings or peer
WithoutHooks ==
    Interface_to_string([server_interface EXCEPT !.pre_up = <<>>, !.pre_down = <<>>,
                                                 !.post_up = <<>>, !.post_down = <<>>])
UpToMtu ==
    Interface_to_string([server_interface EXCEPT !.pre_up = <<>>, !.pre_down = <<>>,
                                                 !.post_up = <<>>, !.post_down = <<>>,
                                                 !.amnezia_settings = None,
                                                 !.peers = <<>>])

\* ------------------------------------------------------------------------
\* C24: in a printed Interface each of pre_up, pre_down, post_up and
\* post_down that is non-empty gives exactly one blank line followed by one
\* PreUp = / PreDown = / PostUp = / PostDown = line per snippet, in stored
\* order and with the snippet verbatim; the four groups stand in that order
\* after the MTU position and before the amnezia block and the peers; an
\* empty list gives neither lines nor a blank line.
\* ------------------------------------------------------------------------
C24_HookGroups ==
    Printed =>
        LET i == server_interface
        IN  /\ starts_with(WithoutHooks, UpToMtu)
            /\ InterfaceText =
                   UpToMtu
                   \o HookLines("PreUp", i.pre_up) \o HookLines("PreDown", i.pre_down)
                   \o HookLines("PostUp", i.post_up) \o HookLines("PostDown", i.post_down)
                   \o SubSeq(WithoutHooks, Len(UpToMtu) + 1, Len(WithoutHooks))

\* an interface with two pre_up snippets, a post_down snippet, no pre_down
\* or post_up snippet, amnezia settings and a peer has been printed
C24_Witness ==
    /\ Printed
    /\ Len(server_interface.pre_up) = 2 /\ Len(server_interface.post_down) = 1
    /\ server_interface.pre_down = <<>> /\ server_interface.post_up = <<>>
    /\ IsSome(server_interface.amnezia_settings)
    /\ server_interface.peers # <<>>
    /\ ContainsText(InterfaceText,
                    "MTU = 1420\n\nPreUp = echo pre-up\nPreUp = PreDown = %i\n\n"
                    \o "PostDown = echo post-down\n\nJc = 5\n")

\* ------------------------------------------------------------------------
\* The builders of builders.rs: every method takes the builder by value and
\* returns it, a list field is a Vec that starts empty and has a set_ method
\* that replaces it and an add_ method that pushes one item.
\* ------------------------------------------------------------------------
\* InterfaceBuilder::new() and PeerBuilder::new(): Default::default(), the
\* default Ipv4Net being 0.0.0.0/0
LegacyInterfaceBuilder_new ==
    [address |-> Net(V4(0, 0, 0, 0), 0), listen_port |-> None, private_key |-> None,
     dns |-> <<>>, endpoint |-> None, table |-> None, mtu |-> None, peers |-> <<>>,
     amnezia_settings |-> None,
     pre_up |-> <<>>, pre_down |-> <<>>, post_up |-> <<>>, post_down |-> <<>>]

LegacyPeerBuilder_new ==
    [endpoint |-> None, allowed_ips |-> <<>>, key |-> None, amnezia_settings |-> None]

\* the list fields of a builder
ListFields(self) ==
    DOMAIN self \cap {"dns", "peers", "pre_up", "pre_down", "post_up", "post_down",
                      "allowed_ips"}

\* address: the one field that is set as it is given
PlainFields(self) == DOMAIN self \cap {"address"}

\* set_dns, set_peers, set_pre_up, set_pre_down, set_post_up, set_post_down,
\* set_allowed_ips
set_list(self, field, list) == [self EXCEPT ![field] = list]

add_item_first(self, field, item) == [self EXCEPT ![field] = <<item>> \o @]

\* add_dns, add_peer, add_pre_up, add_pre_down, add_post_up, add_post_down,
\* add_allowed_ip
add_item(self, field, item) == [self EXCEPT ![field] = Append(@, item)]

\* address, and listen_port, private_key, endpoint, set_table, set_mtu,
\* amnezia_settings, PeerBuilder::private_key and public_key, which wrap the
\* value in Some
set_field(self, field, value) ==
    [self EXCEPT ![field] = IF field \in PlainFields(self) THEN value ELSE Some(value)]

\* InterfaceBuilder::build and PeerBuilder::build of builders.rs
LegacyBuilder_build(self, random_key) ==
    IF "private_key" \in DOMAIN self
    THEN [self EXCEPT !.private_key =
              IF IsSome(self.private_key) THEN Unwrap(self.private_key) ELSE random_key]
    ELSE [self EXCEPT !.key =
              IF IsSome(self.key) THEN Unwrap(self.key) ELSE Left(random_key)]

\* the lists the set_ methods are called with and the items the add_ methods
\* are called with
SetLists(field) ==
    IF field = "dns" THEN {<<"8.8.8.8", "8.8.4.4">>}
    ELSE IF field = "peers" THEN {<<LegacyBuilder_build(LegacyPeerBuilder_new, "client_private")>>}
    ELSE IF field = "allowed_ips" THEN {<<Net(V4(0, 0, 0, 0), 0)>>}
    ELSE {<<"echo " \o field>>}

AddedItems(field) ==
    IF field = "dns" THEN {"1.1.1.1", "8.8.8.8"}
    ELSE IF field = "peers"
    THEN {LegacyBuilder_build(set_field(LegacyPeerBuilder_new, "key", Right("client_public")),
                              "client_private")}
    ELSE IF field = "allowed_ips" THEN {Net(V4(10, 3, 2, 2), 24), Net(V4(10, 3, 2, 1), 32)}
    ELSE {"echo hello"}

\* the values the other methods are called with
FieldValues(field) ==
    IF field = "address" THEN {Net(V4(10, 3, 2, 1), 24)}
    ELSE IF field = "listen_port" THEN {55870}
    ELSE IF field = "private_key" THEN {"server_private"}
    ELSE IF field = "endpoint" THEN {"peer.example.com"}
    ELSE IF field = "table" THEN {[kind |-> "RoutingTable", n |-> 12345]}
    ELSE IF field = "mtu" THEN {1450}
    ELSE IF field = "key" THEN PeerKeys
    ELSE {AmneziaServer}

InitLegacy ==
    /\ legacy_builder = None /\ legacy_calls = <<>> /\ legacy_built = None
    /\ DerivationIdle /\ RenderIdle /\ KeysIdle /\ BuildersIdle /\ AmneziaIdle

\* InterfaceBuilder::new()
NewLegacyInterfaceBuilder ==
    /\ legacy_builder = None /\ legacy_built = None
    /\ legacy_builder' = Some(LegacyInterfaceBuilder_new)
    /\ UNCHANGED <<legacy_calls, legacy_built>>
    /\ UNCHANGED <<derivationVars, renderVars, keyVars, builderVars, amneziaVars>>

\* PeerBuilder::new()
NewLegacyPeerBuilder ==
    /\ legacy_builder = None /\ legacy_built = None
    /\ legacy_builder' = Some(LegacyPeerBuilder_new)
    /\ UNCHANGED <<legacy_calls, legacy_built>>
    /\ UNCHANGED <<derivationVars, renderVars, keyVars, builderVars, amneziaVars>>

\* builder.set_<field>(list); legacy_calls records the calls made on the
\* builder
SetList ==
    /\ IsSome(legacy_builder) /\ Len(legacy_calls) < MaxLegacyCalls
    /\ \E field \in ListFields(Unwrap(legacy_builder)) : \E list \in SetLists(field) :
          /\ legacy_builder' = Some(set_list(Unwrap(legacy_builder), field, list))
          /\ legacy_calls' =
                Append(legacy_calls, [call |-> "set", field |-> field, value |-> list])
    /\ UNCHANGED legacy_built
    /\ UNCHANGED <<derivationVars, renderVars, keyVars, builderVars, amneziaVars>>

\* builder.add_<field>(item)
AddItem ==
    /\ IsSome(legacy_builder) /\ Len(legacy_calls) < MaxLegacyCalls
    /\ \E field \in ListFields(Unwrap(legacy_builder)) : \E item \in AddedItems(field) :
          /\ legacy_builder' = Some(add_item(Unwrap(legacy_builder), field, item))
          /\ legacy_calls' =
                Append(legacy_calls, [call |-> "add", field |-> field, value |-> item])
    /\ UNCHANGED legacy_built
    /\ UNCHANGED <<derivationVars, renderVars, keyVars, builderVars, amneziaVars>>

\* builder.<field>(value) for a field that is not a list
SetField ==
    /\ IsSome(legacy_builder) /\ Len(legacy_calls) < MaxLegacyCalls
    /\ LET self == Unwrap(legacy_builder)
       IN  \E field \in DOMAIN self \ ListFields(self) : \E value \in FieldValues(field) :
              /\ legacy_builder' = Some(set_field(self, field, value))
              /\ legacy_calls' =
                    Append(legacy_calls, [call |-> "field", field |-> field, value |-> value])
    /\ UNCHANGED legacy_built
    /\ UNCHANGED <<derivationVars, renderVars, keyVars, builderVars, amneziaVars>>

\* builder.build(), which takes the builder by value
LegacyBuild ==
    /\ IsSome(legacy_builder)
    /\ \E random_key \in PrivateKeys :
          legacy_built' = Some(LegacyBuilder_build(Unwrap(legacy_builder), random_key))
    /\ legacy_builder' = None
    /\ UNCHANGED legacy_calls
    /\ UNCHANGED <<derivationVars, renderVars, keyVars, builderVars, amneziaVars>>

NextLegacy ==
    \/ NewLegacyInterfaceBuilder \/ NewLegacyPeerBuilder
    \/ SetList \/ AddItem \/ SetField \/ LegacyBuild

SpecLegacy == InitLegacy /\ [][NextLegacy]_vars

\* the calls made on one field, in call order
CallsOn(calls, field) == SelectSeq(calls, LAMBDA c : c.field = field)

\* the argument of the last set_ call among the calls on a list field, the
\* empty list if there was none, followed by the arguments of the add_ calls
\* made after it
ListCalled(calls) ==
    LET sets == {i \in 1..Len(calls) : calls[i].call = "set"}
        last == IF sets = {} THEN 0 ELSE CHOOSE i \in sets : \A j \in sets : j <= i
    IN  (IF last = 0 THEN <<>> ELSE calls[last].value)
        \o [k \in 1..(Len(calls) - last) |-> calls[last + k].value]

\* ------------------------------------------------------------------------
\* C25: for every list field of a builder (dns, pre_up, pre_down, post_up,
\* post_down, peers, allowed_ips), after any sequence of set_ and add_ calls
\* the built list is the argument of the last set_ call, or the empty list
\* if there was none, followed by the arguments of the add_ calls made after
\* it, in call order; calls on one field leave every other field unchanged:
\* a field holds what the calls on that field alone give it.
\* ------------------------------------------------------------------------
C25_ListCalls ==
    IsSome(legacy_built) =>
        LET b == Unwrap(legacy_built)
            lists == DOMAIN b \cap {"dns", "pre_up", "pre_down", "post_up", "post_down",
                                    "peers", "allowed_ips"}
        IN  /\ \A f \in lists : b[f] = ListCalled(CallsOn(legacy_calls, f))
            /\ \A f \in DOMAIN b \ lists :
                   LET on == CallsOn(legacy_calls, f)
                   IN  IF on # <<>>
                       THEN b[f] = IF f = "address" THEN on[Len(on)].value
                                   ELSE IF f \in {"private_key", "key"}
                                   THEN on[Len(on)].value
                                   ELSE Some(on[Len(on)].value)
                       ELSE IF f = "address" THEN b[f] = Net(V4(0, 0, 0, 0), 0)
                       ELSE IF f = "private_key" THEN b[f] \in PrivateKeys
                       ELSE IF f = "key" THEN b[f] \in {Left(k) : k \in PrivateKeys}
                       ELSE b[f] = None

\* dns was added to, set and added to again, and the interface was built
C25_Witness ==
    /\ IsSome(legacy_built)
    /\ Len(legacy_calls) = 3
    /\ \A i \in 1..3 : legacy_calls[i].field = "dns"
    /\ legacy_calls[1].call = "add" /\ legacy_calls[1].value = "1.1.1.1"
    /\ legacy_calls[2].call = "set"
    /\ legacy_calls[3].call = "add" /\ legacy_calls[3].value = "1.1.1.1"
    /\ Unwrap(legacy_built).dns = <<"8.8.8.8", "8.8.4.4", "1.1.1.1">>
    /\ Unwrap(legacy_built).pre_up = <<>>

\* ------------------------------------------------------------------------
\* C26: whenever Peer::to_interface succeeds, whatever the options, the
\* result has a non-empty address list and exactly one peer, and that peer's
\* allowed_ips is non-empty: it is the non-empty address list of the
\* reference or a non-empty list of default routes.
\* ------------------------------------------------------------------------
C26_UsableResult ==
    /\ DerivedOk =>
           /\ DerivedInterface.address # <<>>
           /\ Len(DerivedInterface.peers) = 1
           /\ DerivedInterface.peers[1].allowed_ips # <<>>
           /\ IF options.default_gateway
              THEN \A k \in 1..Len(DerivedInterface.peers[1].allowed_ips) :
                      DerivedInterface.peers[1].allowed_ips[k]
                          \in {Net(V4(0, 0, 0, 0), 0), Net(V6(<<0, 0, 0, 0, 0, 0, 0, 0>>), 0)}
              ELSE /\ server_interface.address # <<>>
                   /\ DerivedInterface.peers[1].allowed_ips = server_interface.address
    /\ (Rederived /\ Unwrap(rederived).ok) =>
           LET r == Unwrap(Unwrap(rederived).val)
           IN  /\ r.address # <<>>
               /\ Len(r.peers) = 1
               /\ r.peers[1].allowed_ips # <<>>
               /\ r.peers[1].allowed_ips = DerivedInterface.address

\* only IPv6 addresses were assigned and the default gateway was asked for
C26_Witness ==
    /\ DerivedOk
    /\ options.default_gateway
    /\ FamiliesOf(DerivedInterface.address) = {"v6"}
    /\ DerivedInterface.peers[1].allowed_ips = <<Net(V6(<<0, 0, 0, 0, 0, 0, 0, 0>>), 0)>>

\* the addresses a derivation assigns as the claims state them: the host
\* address of every allowed ip that some reference address contains, in the
\* order of the allowed ips
MatchedHosts(ips, ref) ==
    LET m == Matched(ips, ref)
    IN  [k \in 1..Cardinality(m) |-> ips[KthOf(m, k)].addr]

\* ------------------------------------------------------------------------
\* C27: the assigned address list of Peer::to_interface has exactly one
\* entry per allowed ip that some reference address contains, in the order
\* of peer.allowed_ips; the rewrite of the prefix length never rejects a
\* matched entry, and entries are not de-duplicated: two allowed ips with
\* the same host address matched by the same reference network give two
\* equal entries.
\* ------------------------------------------------------------------------
C27_OneEntryPerMatch ==
    /\ (Derived /\ HoldsPrivateKey) =>
           LET ips == client_peer.allowed_ips
               ref == server_interface.address
               m == Matched(ips, ref)
           IN  /\ \A i \in m :
                      ref[FirstContaining(ref, ips[i])].prefix_len
                          <= (IF ips[i].addr.fam = "v4" THEN 32 ELSE 128)
               /\ m # {} =>
                      /\ DerivedResult.ok
                      /\ [k \in 1..Len(DerivedInterface.address) |->
                              DerivedInterface.address[k].addr] = MatchedHosts(ips, ref)
                      /\ \A i, j \in m :
                             (/\ i < j /\ ips[i].addr = ips[j].addr
                              /\ FirstContaining(ref, ips[i]) = FirstContaining(ref, ips[j]))
                             => \E k, l \in 1..Len(DerivedInterface.address) :
                                   /\ k < l
                                   /\ DerivedInterface.address[k] = DerivedInterface.address[l]
                                   /\ DerivedInterface.address[k].addr = ips[i].addr
    /\ (Rederived /\ Unwrap(rederived).ok) =>
           LET ips == DerivedInterface.peers[1].allowed_ips
               ref == DerivedInterface.address
           IN  [k \in 1..Len(RederivedAddresses) |-> RederivedAddresses[k].addr]
                   = MatchedHosts(ips, ref)

\* two allowed ips with one host address, both matched by the same reference
\* network, gave two equal entries
C27_Witness ==
    /\ DerivedOk
    /\ Len(client_peer.allowed_ips) = 2
    /\ client_peer.allowed_ips[1] # client_peer.allowed_ips[2]
    /\ client_peer.allowed_ips[1].addr = client_peer.allowed_ips[2].addr
    /\ Len(DerivedInterface.address) = 2
    /\ DerivedInterface.address[1] = DerivedInterface.address[2]

\* every address of a derived interface lies in the subnet of an address of
\* the reference and is no longer than the allowed ip it was computed from
WithinReference(assigned, ips, ref) ==
    LET m == Matched(ips, ref)
    IN  /\ Len(assigned) = Cardinality(m)
        /\ \A k \in 1..Len(assigned) :
               LET c == assigned[k]
               IN  /\ \E j \in 1..Len(ref) :
                          /\ ref[j].addr.fam = c.addr.fam
                          /\ prefix_len(c) = prefix_len(ref[j])
                          /\ network(c) = network(ref[j])
                   /\ prefix_len(c) <= prefix_len(ips[KthOf(m, k)])

\* ------------------------------------------------------------------------
\* C28: every address c of an interface that Peer::to_interface produces
\* lies in the subnet of a reference address: some s of reference.address of
\* the same family has prefix_len(c) = prefix_len(s) and network(c) =
\* network(s); and prefix_len(c) is never greater than the prefix length of
\* the allowed ip c was computed from.
\* ------------------------------------------------------------------------
C28_WithinReferenceSubnet ==
    /\ DerivedOk =>
           WithinReference(DerivedInterface.address, client_peer.allowed_ips,
                           server_interface.address)
    /\ (Rederived /\ Unwrap(rederived).ok) =>
           WithinReference(RederivedAddresses, DerivedInterface.peers[1].allowed_ips,
                           DerivedInterface.address)

\* an allowed ip of prefix length 32 got the prefix length 24 of the
\* reference address, and an IPv6 one the prefix length 48
C28_Witness ==
    /\ DerivedOk
    /\ client_peer.allowed_ips = <<Net(V4(10, 0, 0, 2), 32), Net(Fd00(0, 2), 128)>>
    /\ DerivedInterface.address = <<Net(V4(10, 0, 0, 2), 24), Net(Fd00(0, 2), 48)>>

\* the allowed ips of one family, in their order
RECURSIVE OfFamily(_, _)
OfFamily(nets, fam) ==
    IF nets = <<>> THEN <<>>
    ELSE (IF Head(nets).addr.fam = fam THEN <<Head(nets)>> ELSE <<>>)
         \o OfFamily(Tail(nets), fam)

\* ------------------------------------------------------------------------
\* C30: when the reference Interface was built without any address, so that
\* its address is the default 0.0.0.0/0 alone, Peer::to_interface for a
\* peer holding a private key and at least one IPv4 allowed ip does not fail
\* with NoAssignedIP: it succeeds, every assigned address has the prefix
\* length 0 and the host address of its allowed ip, and the IPv6 allowed ips
\* are dropped.
\* ------------------------------------------------------------------------
C30_DefaultAddressReference ==
    LET ipv4 == OfFamily(client_peer.allowed_ips, "v4")
    IN  (Derived /\ HoldsPrivateKey /\ ipv4 # <<>>
            /\ server_interface.address = <<Net(V4(0, 0, 0, 0), 0)>>) =>
            /\ DerivedResult.ok
            /\ DerivedInterface.address =
                   [k \in 1..Len(ipv4) |-> [addr |-> ipv4[k].addr, prefix_len |-> 0]]

\* an IPv6 allowed ip before an IPv4 one, against the default address alone
C30_Witness ==
    /\ DerivedOk
    /\ server_interface.address = <<Net(V4(0, 0, 0, 0), 0)>>
    /\ client_peer.allowed_ips = <<Net(Fd00(0, 2), 128), Net(V4(10, 0, 0, 2), 32)>>
    /\ DerivedInterface.address = <<Net(V4(10, 0, 0, 2), 0)>>

\* ------------------------------------------------------------------------
\* A server and a client derived from it, both printed: a caller holding a
\* peer, the interface it is a peer of and options derives the client's
\* interface and prints the two interfaces.
\* ------------------------------------------------------------------------
InitTutorial ==
    /\ client_peer \in ExportPeers
    /\ server_interface \in Interfaces(client_peer)
    /\ options \in Options
    /\ client_interface = None
    /\ server_peer = None
    /\ rederived = None
    /\ RenderIdle /\ KeysIdle /\ BuildersIdle /\ AmneziaIdle /\ LegacyIdle

\* client_interface.to_string(), client_interface being the interface an
\* Ok derivation gave
ClientToString ==
    /\ DerivedOk
    /\ client_conf' = Some(Interface_to_string(DerivedInterface))
    /\ UNCHANGED <<derivationVars, interface_conf, peer_conf, keyVars, builderVars,
                   amneziaVars, legacyVars>>

NextTutorial == ToInterface \/ InterfaceToString \/ ClientToString

SpecTutorial == InitTutorial /\ [][NextTutorial]_vars

\* the number of places of a text where part occurs
Occurrences(t, part) ==
    Cardinality({i \in 1..(Len(t) - Len(part) + 1) : SubSeq(t, i, i + Len(part) - 1) = part})

\* the text of an interface shows the interface's own private key, once, and
\* of every peer that holds a private key only the public key
OnlyOwnPrivateKey(t, interface) ==
    /\ Occurrences(t, "PrivateKey = ") = 1
    /\ ContainsText(t, "PrivateKey = " \o base64_encode(as_bytes(interface.private_key))
                       \o "\n")
    /\ \A k \in 1..Len(interface.peers) :
           LET key == interface.peers[k].key
           IN  key.tag = "Left" =>
                  /\ key.val # interface.private_key =>
                         ~ContainsText(t, base64_encode(as_bytes(key.val)))
                  /\ ContainsText(t, "PublicKey = "
                                     \o base64_encode(as_bytes(PublicKey_from(key.val)))
                                     \o "\n")

\* ------------------------------------------------------------------------
\* C29: the text of an Interface shows exactly one private key, the
\* interface's own; every peer, the single peer of a derived interface
\* included, which holds the reference interface's private key in its key,
\* appears only through its public key, so the text of a derived client
\* interface never contains the reference interface's private key.
\* ------------------------------------------------------------------------
C29_OnlyOwnPrivateKey ==
    /\ Printed => OnlyOwnPrivateKey(InterfaceText, server_interface)
    /\ IsSome(client_conf) =>
           /\ DerivedInterface.peers[1].key = Left(server_interface.private_key)
           /\ DerivedInterface.private_key # server_interface.private_key
           /\ OnlyOwnPrivateKey(Unwrap(client_conf), DerivedInterface)
           /\ ~ContainsText(Unwrap(client_conf),
                            base64_encode(as_bytes(server_interface.private_key)))

\* a derived client interface and its server, which holds the client as a
\* peer with the client's private key, have both been printed
C29_Witness ==
    /\ Printed /\ IsSome(client_conf)
    /\ Len(server_interface.peers) = 1
    /\ server_interface.peers[1].key = Left("client_private")
    /\ DerivedInterface.peers[1].key = Left("server_private")
    /\ ContainsText(Unwrap(client_conf),
                    "PublicKey = " \o base64_encode(as_bytes("server_public")) \o "\n")
    /\ ContainsText(InterfaceText,
                    "PublicKey = " \o base64_encode(as_bytes("client_public")) \o "\n")

====
